---------------------------- MODULE Spec2Model ----------------------------
(***************************************************************************)
(* A model of fundsp's object safe unit interface (src/src/audiounit.rs):  *)
(* the default ping of AudioUnit48, and the two block adapters             *)
(* BigBlockAdapter48 and BlockRateAdapter48 around a boxed unit.           *)
(***************************************************************************)
EXTENDS Integers, Sequences, FiniteSets, TLC

(***************************************************************************)
(* Program constants.                                                      *)
(***************************************************************************)
\* "Process up to 64 (MAX_BUFFER_SIZE) samples."
MAX_BUFFER_SIZE == 64

\* "The default sample rate is 44100 Hz."
DEFAULT_SR == 44100

(***************************************************************************)
(* Bounds of the model.                                                    *)
(***************************************************************************)
\* A caller chunk size that does not divide MAX_BUFFER_SIZE.
SmallSize == 7

\* A caller chunk size above two whole blocks.
BigSize == 130

\* A block rate adapter is asked for at most this many frames between resets.
MaxT == 70

\* The period of the wrapped unit's phase.
PhaseMod == 5

\* The caller's input buffers are drawn from this many patterns.
NumPatterns == 2

\* Width in bits of the modelled hash state (the program's is 64).
HashBits == 6

\* Number of nodes in the pinged graphs.
NumNodes == 3

\* Node type identifiers are drawn from 0 .. MaxId.
MaxId == 1

\* The nodes of the second graph are ticked at most this many times in all.
MaxNodeT == 1

\* A pass over a graph starts from the hash of a seed in 0 .. MaxStart.
MaxStart == 3

\* A routed unit has at most this many outputs.
MaxOutputs == 3

\* An output of a routed unit is delayed by at most this many samples.
MaxDelay == 2

\* A filter is given cutoffs, bandwidths and delays of this many sizes.
MaxCutoff == 2

\* A filter node or adapter driven on its own is ticked at most this often.
MaxFilterT == 2

\* The longest slice a caller hands to tick.
MaxSlice == 3

\* The calls made on an adapter and its clone after the clone is made.
MaxCloneCalls == 2

\* The band up to the Nyquist frequency is probed at this many steps.
MaxBand == 21

\* A biquad driven on its own is ticked at most this often.
MaxBiquadT == 3

\* The ticks and process calls made on an adapter followed pass by pass.
MaxLoopCalls == 2

VARIABLES
    kind,       \* which adapter was constructed: "BlockRate", "BigBlock" or "None"
    unit,       \* BlockRateAdapter48.unit
    channels,   \* BlockRateAdapter48.channels
    buffer,     \* BlockRateAdapter48.buffer
    index,      \* BlockRateAdapter48.index
    source,     \* BigBlockAdapter48.source
    input,      \* BigBlockAdapter48.input
    output,     \* BigBlockAdapter48.output
    ref,        \* a copy of the wrapped unit, driven directly by tick
    last,       \* the last call on the adapter, the cursor it found, what it gave
    emitted,    \* frames a block rate adapter has emitted since new or reset
    ctor,       \* inputs() and outputs() as observed right after construction
    nodes,      \* the nodes of two graphs, in ping order
    cur,        \* per graph: the hash threaded to the next node
    pos,        \* per graph: the position of the next node to ping
    start,      \* per graph: the hash its pass started from and its probe flag
    committed,  \* per graph: the positions pinged with probe == false
    lastPing,   \* the last ping call and what it returned
    node,       \* a unit or filter node driven on its own, or NoNode
    seen,       \* the last call on node and what it returned
    life        \* node's ticks so far, and whether its sample rate was ever set

vars == <<kind, unit, channels, buffer, index, source, input, output, ref,
          last, emitted, ctor, nodes, cur, pos, start, committed, lastPing,
          node, seen, life>>

nodeVars == <<node, seen, life>>

pingVars == <<nodes, cur, pos, start, committed, lastPing>>

(***************************************************************************)
(* Helpers.                                                                *)
(***************************************************************************)
Min(a, b) == IF a < b THEN a ELSE b

RECURSIVE SumSeq(_)
SumSeq(s) == IF s = <<>> THEN 0 ELSE Head(s) + SumSeq(Tail(s))

Zeros(n) == [i \in 1..n |-> 0] \o <<>>

Resize(v, n, x) ==
    IF Len(v) >= n THEN SubSeq(v, 1, n)
    ELSE v \o [i \in 1..(n - Len(v)) |-> x]

(***************************************************************************)
(* AttoHash: a running hash state of HashBits bits.  hash(data) rotates    *)
(* the state, xors the data in and multiplies by an odd constant, so that  *)
(* for every data word it permutes the states.                             *)
(***************************************************************************)
HashWords == 2 ^ HashBits

RECURSIVE BitXor(_, _, _)
BitXor(a, b, w) ==
    IF w = 0 THEN 0
    ELSE ((a + b) % 2) + 2 * BitXor(a \div 2, b \div 2, w - 1)

RotateLeft(x, r) ==
    LET k == r % HashBits
    IN  ((x * (2 ^ k)) % HashWords) + (x \div (2 ^ (HashBits - k)))

AttoHashNew(seed) == [state |-> seed % HashWords]

AttoHashState(hash) == hash.state

AttoHashHash(hash, data) ==
    [state |-> (BitXor(RotateLeft(hash.state, 5), data % HashWords, HashBits)
                * 149) % HashWords]

(***************************************************************************)
(* The wrapped unit: a deterministic unit behind Box<dyn AudioUnit48>.     *)
(* Its audio state is a phase that every tick advances by one, modulo      *)
(* PhaseMod; its samples depend on the phase, the inputs of the frame, the *)
(* sample rate and the installed hash.  process(n) is n ticks (the         *)
(* consistency law).                                                       *)
(***************************************************************************)
UnitNew(id, nin, nout) ==
    [id |-> id, nin |-> nin, nout |-> nout, phase |-> 0,
     sr |-> DEFAULT_SR, hash |-> 0]

UnitInputs(u) == u.nin

UnitOutputs(u) == u.nout

UnitGetId(u) == u.id

UnitReset(u) == [u EXCEPT !.phase = 0]

UnitSetSampleRate(u, sample_rate) == [u EXCEPT !.sr = sample_rate]

UnitSetHash(u, hash) == [u EXCEPT !.hash = hash]

\* The state of u after n more frames: the phase does not depend on the inputs.
UnitAfter(u, n) == [u EXCEPT !.phase = (@ + n) % PhaseMod]

\* The sample on output c for a frame that leaves the unit in state v.
UnitSample(v, frame, c) ==
    (v.phase + 1) * (v.sr \div 100) + v.hash + (c - 1) + 2 * SumSeq(frame)

UnitTick(u, frame) ==
    LET v == UnitAfter(u, 1)
    IN  [unit |-> v,
         out  |-> [c \in 1..u.nout |-> UnitSample(v, frame, c)] \o <<>>]

\* process(size, input, output): size ticks, frame i being ticked in the state
\* after i - 1 frames; out holds the first size frames of every output buffer.
UnitProcess(u, size, in) ==
    [unit |-> UnitAfter(u, size),
     out  |-> [c \in 1..u.nout |->
                  [i \in 1..size |->
                      UnitSample(UnitAfter(u, i), [k \in 1..u.nin |-> in[k][i]], c)]
                  \o <<>>] \o <<>>]

\* Box<dyn AudioUnit48>::clone: a copy of the unit that shares nothing with it.
UnitClone(u) == u

UnitAllocate(u) == u

\* route: a generator reports zero latency on every output; a unit with
\* inputs passes the signal of its first input to every output.
UnitRoute(u, frame, frequency) ==
    [unit |-> u,
     out  |-> [c \in 1..u.nout |->
                  IF u.nin = 0 THEN [tag |-> "Latency", value |-> 0]
                  ELSE frame[1]]]

\* A ping that installs the hash after the id is combined in.
PingMutPostHash(u, probe, hash) ==
    [unit |-> IF ~probe
              THEN UnitSetHash(u, AttoHashState(AttoHashHash(hash, UnitGetId(u))))
              ELSE u,
     ret  |-> AttoHashHash(hash, UnitGetId(u))]

\* A ping whose seed takes the unit's audio state into account.
PingMutAudio(u, probe, hash) ==
    [unit |-> IF ~probe THEN UnitSetHash(u, AttoHashState(hash) + u.phase) ELSE u,
     ret  |-> AttoHashHash(hash, UnitGetId(u))]

\* A ping that hands the incoming hash on without combining the id.
PingMutNoCombine(u, probe, hash) ==
    [unit |-> IF ~probe THEN UnitSetHash(u, AttoHashState(hash)) ELSE u,
     ret  |-> hash]

\* A ping that commits the seed even when probing.
PingMutProbeCommits(u, probe, hash) ==
    [unit |-> UnitSetHash(u, AttoHashState(hash)),
     ret  |-> IF probe THEN hash ELSE AttoHashHash(hash, UnitGetId(u))]

\* The default ping of the trait.
Ping(u, probe, hash) ==
    [unit |-> IF ~probe THEN UnitSetHash(u, AttoHashState(hash)) ELSE u,
     ret  |-> AttoHashHash(hash, UnitGetId(u))]

(***************************************************************************)
(* Buffer: multichannel storage of MAX_BUFFER_SIZE samples per channel.    *)
(***************************************************************************)
BufferNew == <<>>

BufferResize(b, ch) ==
    [c \in 1..ch |-> IF c <= Len(b) THEN b[c] ELSE Zeros(MAX_BUFFER_SIZE)]
    \o <<>>

BufferGetMut(b, ch) == IF Len(b) >= ch THEN b ELSE BufferResize(b, ch)

BufferAt(b, channel) == b[channel]

(***************************************************************************)
(* BlockRateAdapter48.  An adapter value a has the fields of the struct;   *)
(* an operation returns them with what the caller observes: out, the       *)
(* frames written per channel, and calls, the sizes of the calls made to   *)
(* the wrapped unit's process.                                             *)
(***************************************************************************)
BlockRateNew(u) ==
    [unit |-> u, channels |-> UnitOutputs(u), buffer |-> BufferNew,
     index |-> MAX_BUFFER_SIZE]

BlockRateInputs(a) == 0

BlockRateOutputsMutBufferLen(a) == Len(a.buffer)

BlockRateOutputs(a) == a.channels

BlockRateResetMutKeepsCursor(a) == [a EXCEPT !.unit = UnitReset(a.unit)]

\* A reset that rewinds the cursor to the start of the buffered block.
BlockRateResetMutRewinds(a) ==
    [a EXCEPT !.unit = UnitReset(a.unit), !.index = 0]

BlockRateReset(a) ==
    [a EXCEPT !.unit = UnitReset(a.unit), !.index = MAX_BUFFER_SIZE]

\* A rate change that discards what is left of the buffered block.
BlockRateSetSampleRateMutDiscards(a, sample_rate) ==
    [a EXCEPT !.unit = UnitSetSampleRate(a.unit, sample_rate),
              !.index = MAX_BUFFER_SIZE]

BlockRateSetSampleRate(a, sample_rate) ==
    [a EXCEPT !.unit = UnitSetSampleRate(a.unit, sample_rate)]

\* self.unit.process(MAX_BUFFER_SIZE, input, self.buffer.get_mut(self.channels));
\* self.index = 0;
BlockRateRefill(a, in) ==
    LET b == BufferGetMut(a.buffer, a.channels)
        r == UnitProcess(a.unit, MAX_BUFFER_SIZE, in)
    IN  [a EXCEPT !.unit = r.unit,
                  !.buffer = [c \in 1..Len(b) |->
                                 IF c <= a.channels THEN r.out[c] ELSE b[c]]
                             \o <<>>,
                  !.index = 0]

\* A tick that leaves the cursor where it is.
BlockRateTickMutNoAdvance(a) ==
    LET f == IF a.index = MAX_BUFFER_SIZE THEN BlockRateRefill(a, <<>>) ELSE a
    IN  [unit |-> f.unit, channels |-> f.channels, buffer |-> f.buffer,
         index |-> f.index,
         out |-> [c \in 1..f.channels |-> <<BufferAt(f.buffer, c)[f.index + 1]>>],
         calls |-> IF a.index = MAX_BUFFER_SIZE THEN <<MAX_BUFFER_SIZE>> ELSE <<>>]

BlockRateTick(a) ==
    LET f == IF a.index = MAX_BUFFER_SIZE THEN BlockRateRefill(a, <<>>) ELSE a
    IN  [unit |-> f.unit, channels |-> f.channels, buffer |-> f.buffer,
         index |-> f.index + 1,
         out |-> [c \in 1..f.channels |-> <<BufferAt(f.buffer, c)[f.index + 1]>>],
         calls |-> IF a.index = MAX_BUFFER_SIZE THEN <<MAX_BUFFER_SIZE>> ELSE <<>>]

\* One pass of the while loop of process per call; s carries i, out and calls.
RECURSIVE BlockRateLoop(_, _, _)
BlockRateLoop(s, size, in) ==
    IF ~(s.i < size) THEN s
    ELSE LET f == IF s.index = MAX_BUFFER_SIZE THEN BlockRateRefill(s, in) ELSE s
             n == Min(size - s.i, MAX_BUFFER_SIZE - f.index)
         IN  BlockRateLoop(
                 [f EXCEPT !.i = @ + n,
                           !.index = @ + n,
                           !.out = [c \in 1..f.channels |->
                                       @[c] \o SubSeq(BufferAt(f.buffer, c),
                                                      f.index + 1, f.index + n)]
                                   \o <<>>,
                           !.calls = IF s.index = MAX_BUFFER_SIZE
                                     THEN Append(@, MAX_BUFFER_SIZE) ELSE @],
                 size, in)

BlockRateStart(a) ==
    [unit |-> a.unit, channels |-> a.channels, buffer |-> a.buffer,
     index |-> a.index, i |-> 0, out |-> [c \in 1..a.channels |-> <<>>],
     calls |-> <<>>]

\* A do-while: the refill is made before the loop condition is first tested.
BlockRateProcessMutEagerRefill(a, size, in) ==
    LET f == IF a.index = MAX_BUFFER_SIZE THEN BlockRateRefill(a, in) ELSE a
        s == BlockRateLoop(BlockRateStart(f), size, in)
    IN  [s EXCEPT !.calls = IF a.index = MAX_BUFFER_SIZE
                            THEN <<MAX_BUFFER_SIZE>> \o @ ELSE @]

BlockRateProcess(a, size, in) == BlockRateLoop(BlockRateStart(a), size, in)

\* A pass that never refills the buffer.
BlockRatePassMutNoRefill(s, size, in) ==
    LET n == Min(size - s.i, MAX_BUFFER_SIZE - s.index)
    IN  [s EXCEPT !.i = @ + n, !.index = @ + n]

\* A pass that refills the buffer wherever the cursor is.
BlockRatePassMutAlwaysRefill(s, size, in) ==
    LET f == BlockRateRefill(s, in)
        n == Min(size - s.i, MAX_BUFFER_SIZE - f.index)
    IN  [f EXCEPT !.i = @ + n,
                  !.index = @ + n,
                  !.out = [c \in 1..f.channels |->
                              @[c] \o SubSeq(BufferAt(f.buffer, c),
                                             f.index + 1, f.index + n)]
                          \o <<>>,
                  !.calls = Append(@, MAX_BUFFER_SIZE)]

\* One pass of the while loop of process, taken when i < size.
BlockRatePass(s, size, in) ==
    LET f == IF s.index = MAX_BUFFER_SIZE THEN BlockRateRefill(s, in) ELSE s
        n == Min(size - s.i, MAX_BUFFER_SIZE - f.index)
    IN  [f EXCEPT !.i = @ + n,
                  !.index = @ + n,
                  !.out = [c \in 1..f.channels |->
                              @[c] \o SubSeq(BufferAt(f.buffer, c),
                                             f.index + 1, f.index + n)]
                          \o <<>>,
                  !.calls = IF s.index = MAX_BUFFER_SIZE
                            THEN Append(@, MAX_BUFFER_SIZE) ELSE @]

BlockRatePing(a, probe, hash) ==
    LET r == Ping(a.unit, probe, hash)
    IN  [adapter |-> [a EXCEPT !.unit = r.unit], ret |-> r.ret]

BlockRateRoute(a, frame, frequency) ==
    LET r == UnitRoute(a.unit, frame, frequency)
    IN  [adapter |-> [a EXCEPT !.unit = r.unit], out |-> r.out]

\* An allocate that hands out a fresh, zeroed buffer.
BlockRateAllocateMutFresh(a) ==
    [a EXCEPT !.buffer = BufferResize(BufferNew, a.channels),
              !.unit = UnitAllocate(a.unit)]

BlockRateAllocate(a) ==
    [a EXCEPT !.buffer = BufferResize(a.buffer, a.channels),
              !.unit = UnitAllocate(a.unit)]

\* A clone that starts at the end of its block, as a new adapter does.
BlockRateCloneMutRewinds(a) ==
    [unit |-> UnitClone(a.unit), channels |-> a.channels, buffer |-> a.buffer,
     index |-> MAX_BUFFER_SIZE]

\* #[derive(Clone)]: every field is cloned.
BlockRateClone(a) ==
    [unit |-> UnitClone(a.unit), channels |-> a.channels, buffer |-> a.buffer,
     index |-> a.index]

(***************************************************************************)
(* BigBlockAdapter48.  An adapter value a has the fields source, input and *)
(* output (the scratch buffers); the slice views hold no state.            *)
(***************************************************************************)
BigBlockNew(u) ==
    [source |-> u,
     input  |-> [k \in 1..UnitInputs(u) |-> <<>>],
     output |-> [c \in 1..UnitOutputs(u) |-> <<>>]]

BigBlockInputs(a) == UnitInputs(a.source)

BigBlockOutputs(a) == UnitOutputs(a.source)

BigBlockReset(a) == [a EXCEPT !.source = UnitReset(a.source)]

BigBlockSetSampleRate(a, sample_rate) ==
    [a EXCEPT !.source = UnitSetSampleRate(a.source, sample_rate)]

BigBlockTick(a, frame) ==
    LET r == UnitTick(a.source, frame)
    IN  [source |-> r.unit, input |-> a.input, output |-> a.output,
         out |-> [c \in 1..Len(r.out) |-> <<r.out[c]>>], calls |-> <<>>]

\* A loop that copies every chunk from the start of the caller's input.
RECURSIVE BigBlockLoopMutNoOffset(_, _, _)
BigBlockLoopMutNoOffset(s, size, in) ==
    IF ~(s.i < size) THEN s
    ELSE LET n == Min(size - s.i, MAX_BUFFER_SIZE)
             scratch == [k \in 1..Len(s.input) |->
                            SubSeq(in[k], 1, n)
                            \o SubSeq(s.input[k], n + 1, Len(s.input[k]))]
                        \o <<>>
             r == UnitProcess(s.source, n, scratch)
             result == [c \in 1..Len(s.output) |->
                           r.out[c] \o SubSeq(s.output[c], n + 1, Len(s.output[c]))]
                       \o <<>>
         IN  BigBlockLoopMutNoOffset(
                 [s EXCEPT !.source = r.unit,
                           !.input = scratch,
                           !.output = result,
                           !.i = @ + n,
                           !.out = [c \in 1..Len(s.output) |->
                                       @[c] \o SubSeq(result[c], 1, n)] \o <<>>,
                           !.calls = Append(@, n)],
                 size, in)

\* One pass of the while loop of process per call; s carries i, out and calls.
RECURSIVE BigBlockLoop(_, _, _)
BigBlockLoop(s, size, in) ==
    IF ~(s.i < size) THEN s
    ELSE LET n == Min(size - s.i, MAX_BUFFER_SIZE)
             scratch == [k \in 1..Len(s.input) |->
                            SubSeq(in[k], s.i + 1, s.i + n)
                            \o SubSeq(s.input[k], n + 1, Len(s.input[k]))]
                        \o <<>>
             r == UnitProcess(s.source, n, scratch)
             result == [c \in 1..Len(s.output) |->
                           r.out[c] \o SubSeq(s.output[c], n + 1, Len(s.output[c]))]
                       \o <<>>
         IN  BigBlockLoop(
                 [s EXCEPT !.source = r.unit,
                           !.input = scratch,
                           !.output = result,
                           !.i = @ + n,
                           !.out = [c \in 1..Len(s.output) |->
                                       @[c] \o SubSeq(result[c], 1, n)] \o <<>>,
                           !.calls = Append(@, n)],
                 size, in)

\* The whole request is handed to the wrapped unit, whatever its size.
BigBlockProcessMutNoChunking(a, size, in) ==
    LET r == UnitProcess(a.source, size, in)
    IN  [source |-> r.unit, input |-> a.input, output |-> a.output,
         i |-> size, out |-> r.out, calls |-> <<size>>]

\* A process that grows the scratch buffers whatever the size.
BigBlockProcessMutGrows(a, size, in) ==
    LET grown == [source |-> a.source,
                  input  |-> [k \in 1..Len(a.input) |->
                                 Resize(a.input[k], MAX_BUFFER_SIZE, 0)] \o <<>>,
                  output |-> [c \in 1..Len(a.output) |->
                                 Resize(a.output[c], MAX_BUFFER_SIZE, 0)] \o <<>>,
                  i |-> 0, out |-> [c \in 1..Len(a.output) |-> <<>>],
                  calls |-> <<>>]
    IN  IF size > MAX_BUFFER_SIZE
        THEN BigBlockLoop(grown, size, in)
        ELSE LET r == UnitProcess(a.source, size, in)
             IN  [source |-> r.unit, input |-> grown.input,
                  output |-> grown.output,
                  i |-> size, out |-> r.out, calls |-> <<size>>]

BigBlockProcess(a, size, in) ==
    IF size > MAX_BUFFER_SIZE
    THEN BigBlockLoop(
             [source |-> a.source,
              input  |-> [k \in 1..Len(a.input) |->
                             Resize(a.input[k], MAX_BUFFER_SIZE, 0)] \o <<>>,
              output |-> [c \in 1..Len(a.output) |->
                             Resize(a.output[c], MAX_BUFFER_SIZE, 0)] \o <<>>,
              i |-> 0, out |-> [c \in 1..Len(a.output) |-> <<>>],
              calls |-> <<>>],
             size, in)
    ELSE LET r == UnitProcess(a.source, size, in)
         IN  [source |-> r.unit, input |-> a.input, output |-> a.output,
              i |-> size, out |-> r.out, calls |-> <<size>>]

\* What process sets up before its loop when size > MAX_BUFFER_SIZE.
BigBlockStart(a) ==
    [source |-> a.source,
     input  |-> [k \in 1..Len(a.input) |->
                    Resize(a.input[k], MAX_BUFFER_SIZE, 0)] \o <<>>,
     output |-> [c \in 1..Len(a.output) |->
                    Resize(a.output[c], MAX_BUFFER_SIZE, 0)] \o <<>>,
     i |-> 0, out |-> [c \in 1..Len(a.output) |-> <<>>],
     calls |-> <<>>]

\* One pass of the while loop of process, taken when i < size.
BigBlockPass(s, size, in) ==
    LET n == Min(size - s.i, MAX_BUFFER_SIZE)
        scratch == [k \in 1..Len(s.input) |->
                       SubSeq(in[k], s.i + 1, s.i + n)
                       \o SubSeq(s.input[k], n + 1, Len(s.input[k]))]
                   \o <<>>
        r == UnitProcess(s.source, n, scratch)
        result == [c \in 1..Len(s.output) |->
                      r.out[c] \o SubSeq(s.output[c], n + 1, Len(s.output[c]))]
                  \o <<>>
    IN  [s EXCEPT !.source = r.unit,
                  !.input = scratch,
                  !.output = result,
                  !.i = @ + n,
                  !.out = [c \in 1..Len(s.output) |->
                              @[c] \o SubSeq(result[c], 1, n)] \o <<>>,
                  !.calls = Append(@, n)]

BigBlockPing(a, probe, hash) ==
    LET r == Ping(a.source, probe, hash)
    IN  [adapter |-> [a EXCEPT !.source = r.unit], ret |-> r.ret]

BigBlockRoute(a, frame, frequency) ==
    LET r == UnitRoute(a.source, frame, frequency)
    IN  [adapter |-> [a EXCEPT !.source = r.unit], out |-> r.out]

BigBlockAllocate(a) ==
    [source |-> UnitAllocate(a.source),
     input  |-> [k \in 1..Len(a.input) |->
                    Resize(a.input[k], MAX_BUFFER_SIZE, 0)],
     output |-> [c \in 1..Len(a.output) |->
                    Resize(a.output[c], MAX_BUFFER_SIZE, 0)]]

\* impl Clone: source and scratch buffers are cloned, the slice views are new.
BigBlockClone(a) ==
    [source |-> UnitClone(a.source), input |-> a.input, output |-> a.output]

(***************************************************************************)
(* Signals and signal frames.  A complex gain is a pair <<re, im>>.         *)
(***************************************************************************)
SignalUnknown == [tag |-> "Unknown"]

SignalValue(x) == [tag |-> "Value", value |-> x]

SignalLatency(x) == [tag |-> "Latency", value |-> x]

SignalResponse(rx, latency) ==
    [tag |-> "Response", value |-> rx, latency |-> latency]

new_signal_frame(size) == [i \in 1..size |-> SignalUnknown]

ComplexMul(a, b) == <<a[1] * b[1] - a[2] * b[2], a[1] * b[2] + a[2] * b[1]>>

\* Signal::filter: a latency grows by the filter's latency, a response is
\* multiplied by the filter's gain, anything else becomes unknown.
SignalFilter(signal, latency, gain) ==
    IF signal.tag = "Latency" THEN SignalLatency(signal.value + latency)
    ELSE IF signal.tag = "Response"
         THEN SignalResponse(ComplexMul(signal.value, gain),
                             signal.latency + latency)
         ELSE SignalUnknown

NormSqr(r) == r[1] * r[1] + r[2] * r[2]

RECURSIVE Log10(_)
Log10(x) == IF x < 10 THEN 0 ELSE 1 + Log10(x \div 10)

\* amp_db(r.norm()), in whole decibels: 10 log10 of the squared norm.
AmpDbNorm(r) == 10 * Log10(NormSqr(r))

(***************************************************************************)
(* A unit whose outputs are routed in different ways: the output c of a    *)
(* composite filters input 0 with a delay, or carries a constant, or       *)
(* carries a signal of which nothing is known.                             *)
(***************************************************************************)
PathGain(frequency, delay) == <<1 + (frequency % 3), delay>>

RoutedUnitNew(id, nin, nout, paths) ==
    [id |-> id, nin |-> nin, nout |-> nout, phase |-> 0, sr |-> DEFAULT_SR,
     hash |-> 0, paths |-> paths]

RoutedUnitRoute(u, frame, frequency) ==
    [unit |-> u,
     out  |-> [c \in 1..u.nout |->
                  LET path == u.paths[c]
                  IN  IF path.kind = "Unknown" THEN SignalUnknown
                      ELSE IF path.kind = "Value" THEN SignalValue(c)
                      ELSE IF u.nin = 0 THEN SignalLatency(path.delay)
                      ELSE SignalFilter(frame[1], path.delay,
                                        PathGain(frequency, path.delay))]]

None == [tag |-> "None"]

Some(x) == [tag |-> "Some", value |-> x]

\* A failed assert! or a panic!: the call does not return.
Panic == [tag |-> "Panic"]

(***************************************************************************)
(* Real arithmetic of the filters, in fixed point: a real x is the integer *)
(* x * Scale, rounded down.  Frequencies and sample rates are whole Hz.    *)
(***************************************************************************)
Scale == 1000

PI == 3142

TAU == 6283

SQRT_2 == 1414

FMul(a, b) == (a * b) \div Scale

\* a / b; a division by zero is outside the values represented.
FDiv(a, b) == (a * Scale) \div b

\* exp(x), by its series up to the fifth power.
exp(x) ==
    Scale + FMul(x, Scale + FMul(x \div 2, Scale + FMul(x \div 3,
                Scale + FMul(x \div 4, Scale + x \div 5))))

\* cos(x) and sin(x) for x within a quarter turn of 0, by their series up to
\* the sixth and fifth power.
CosSeries(x) ==
    LET x2 == FMul(x, x)
    IN  Scale - FMul(x2 \div 2, Scale - FMul(x2 \div 12, Scale - x2 \div 30))

SinSeries(x) ==
    LET x2 == FMul(x, x)
    IN  FMul(x, Scale - FMul(x2 \div 6, Scale - x2 \div 20))

\* cos(x) and sin(x) for x within three quarters of a turn of 0: an angle
\* beyond a quarter turn is brought back by half a turn, which negates both.
cos(x) ==
    IF 2 * x < 0 - PI THEN 0 - CosSeries(x + PI)
    ELSE IF 2 * x > PI THEN 0 - CosSeries(x - PI)
    ELSE CosSeries(x)

sin(x) ==
    IF 2 * x < 0 - PI THEN 0 - SinSeries(x + PI)
    ELSE IF 2 * x > PI THEN 0 - SinSeries(x - PI)
    ELSE SinSeries(x)

\* tan(x) = sin(x) / cos(x).
tan(x) == FDiv(sin(x), cos(x))

\* The largest s in lo..hi with s * s <= v, by bisection.
RECURSIVE Root(_, _, _)
Root(lo, hi, v) ==
    IF lo = hi THEN lo
    ELSE LET mid == (lo + hi + 1) \div 2
         IN  IF mid * mid <= v THEN Root(mid, hi, v) ELSE Root(lo, mid - 1, v)

\* sqrt(x) for 0 <= x <= 1.
sqrt(x) == Root(0, Scale, x * Scale)

ComplexAdd(a, b) == <<a[1] + b[1], a[2] + b[2]>>

ComplexSub(a, b) == <<a[1] - b[1], a[2] - b[2]>>

ComplexFMul(a, b) ==
    <<FMul(a[1], b[1]) - FMul(a[2], b[2]), FMul(a[1], b[2]) + FMul(a[2], b[1])>>

ComplexFDiv(a, b) ==
    LET norm == FMul(b[1], b[1]) + FMul(b[2], b[2])
    IN  <<FDiv(FMul(a[1], b[1]) + FMul(a[2], b[2]), norm),
          FDiv(FMul(a[2], b[1]) - FMul(a[1], b[2]), norm)>>

\* Complex64::from_polar(1.0, theta).
FromPolar(theta) == <<cos(theta), sin(theta)>>

\* Complex64::new(x, 0.0).
re(x) == <<x, 0>>

(***************************************************************************)
(* BiquadCoefs.                                                            *)
(***************************************************************************)
BiquadCoefs(a1, a2, b0, b1, b2) ==
    [a1 |-> a1, a2 |-> a2, b0 |-> b0, b1 |-> b1, b2 |-> b2]

BiquadCoefsDefault == BiquadCoefs(0, 0, 0, 0, 0)

butter_lowpass(sample_rate, cutoff) ==
    LET f == tan((cutoff * PI) \div sample_rate)
        a0r == FDiv(Scale, Scale + FMul(SQRT_2, f) + FMul(f, f))
        a1 == FMul(2 * FMul(f, f) - 2 * Scale, a0r)
        a2 == FMul(Scale - FMul(SQRT_2, f) + FMul(f, f), a0r)
        b0 == FMul(FMul(f, f), a0r)
        b1 == 2 * b0
        b2 == b0
    IN  BiquadCoefs(a1, a2, b0, b1, b2)

resonator(sample_rate, center, bandwidth) ==
    LET r == exp(((0 - PI) * bandwidth) \div sample_rate)
        a1 == FMul(FMul(0 - 2 * Scale, r), cos((TAU * center) \div sample_rate))
        a2 == FMul(r, r)
        b0 == sqrt(Scale - FMul(r, r)) \div 2
        b1 == 0
        b2 == 0 - b0
    IN  BiquadCoefs(a1, a2, b0, b1, b2)

\* BiquadCoefs::response; omega is a fraction of the sampling rate.
BiquadCoefsResponse(coefs, omega) ==
    LET z1 == FromPolar(0 - FMul(TAU, omega))
        z2 == ComplexFMul(z1, z1)
    IN  ComplexFDiv(
            ComplexAdd(re(coefs.b0),
                ComplexAdd(ComplexFMul(re(coefs.b1), z1),
                           ComplexFMul(re(coefs.b2), z2))),
            ComplexAdd(re(Scale),
                ComplexAdd(ComplexFMul(re(coefs.a1), z1),
                           ComplexFMul(re(coefs.a2), z2))))

(***************************************************************************)
(* Biquad: coefficients, the last two inputs and outputs, the sample rate. *)
(***************************************************************************)
BiquadDefault ==
    [class |-> "Biquad", coefs |-> BiquadCoefsDefault,
     x1 |-> 0, x2 |-> 0, y1 |-> 0, y2 |-> 0, sample_rate |-> 0]

BiquadNew == [BiquadDefault EXCEPT !.sample_rate = DEFAULT_SR]

BiquadWithCoefs(coefs) ==
    [BiquadDefault EXCEPT !.coefs = coefs, !.sample_rate = DEFAULT_SR]

BiquadSetCoefs(self, coefs) == [self EXCEPT !.coefs = coefs]

BiquadReset(self) ==
    [self EXCEPT !.x1 = 0, !.x2 = 0, !.y1 = 0, !.y2 = 0]

BiquadSetSampleRate(self, sample_rate) ==
    [self EXCEPT !.sample_rate = sample_rate]

\* A tick that stores the new output in both output slots.
BiquadTickMutNoShift(self, inputFrame) ==
    LET x0 == inputFrame[1]
        y0 == FMul(self.coefs.b0, x0) + FMul(self.coefs.b1, self.x1)
                  + FMul(self.coefs.b2, self.x2)
                  - FMul(self.coefs.a1, self.y1)
                  - FMul(self.coefs.a2, self.y2)
    IN  [self |-> [self EXCEPT !.x2 = self.x1, !.x1 = x0,
                               !.y2 = y0, !.y1 = y0],
         out  |-> <<y0>>]

BiquadTick(self, inputFrame) ==
    LET x0 == inputFrame[1]
        y0 == FMul(self.coefs.b0, x0) + FMul(self.coefs.b1, self.x1)
                  + FMul(self.coefs.b2, self.x2)
                  - FMul(self.coefs.a1, self.y1)
                  - FMul(self.coefs.a2, self.y2)
    IN  [self |-> [self EXCEPT !.x2 = self.x1, !.x1 = x0,
                               !.y2 = self.y1, !.y1 = y0],
         out  |-> <<y0>>]

\* frequency / sample_rate, a fraction of the sampling rate.
Omega(frequency, sample_rate) == (frequency * Scale) \div sample_rate

BiquadRoute(self, inputFrame, frequency) ==
    [self |-> self,
     out  |-> <<SignalFilter(inputFrame[1], 0,
                    BiquadCoefsResponse(self.coefs,
                                        Omega(frequency, self.sample_rate)))>>]

(***************************************************************************)
(* ButterLowpass with n inputs (1 or 2): a biquad, the sample rate and     *)
(* the cutoff.                                                             *)
(***************************************************************************)
ButterLowpassSetCutoff(self, cutoff) ==
    [self EXCEPT !.biquad = BiquadSetCoefs(self.biquad,
                                butter_lowpass(self.sample_rate, cutoff)),
                 !.cutoff = cutoff]

ButterLowpassNew(n, cutoff) ==
    LET node0 == [class |-> "ButterLowpass", n |-> n, biquad |-> BiquadNew,
                  sample_rate |-> DEFAULT_SR, cutoff |-> 0]
    IN  ButterLowpassSetCutoff(
            [node0 EXCEPT !.biquad = BiquadReset(node0.biquad)], cutoff)

ButterLowpassReset(self) == [self EXCEPT !.biquad = BiquadReset(self.biquad)]

\* A set_sample_rate that keeps the coefficients of the old rate.
ButterLowpassSetSampleRateMutStale(self, sample_rate) ==
    [self EXCEPT !.sample_rate = sample_rate,
                 !.biquad = BiquadSetSampleRate(self.biquad, sample_rate)]

ButterLowpassSetSampleRate(self, sample_rate) ==
    LET s1 == [self EXCEPT !.sample_rate = sample_rate]
        s2 == [s1 EXCEPT !.biquad = BiquadSetSampleRate(s1.biquad, sample_rate)]
    IN  ButterLowpassSetCutoff(s2, s2.cutoff)

\* A tick that filters the sample before it looks at the cutoff input.
ButterLowpassTickMutLate(self, inputFrame) ==
    LET r == BiquadTick(self.biquad, <<inputFrame[1]>>)
        s1 == [self EXCEPT !.biquad = r.self]
    IN  [self |-> IF self.n > 1 /\ inputFrame[2] # self.cutoff
                  THEN ButterLowpassSetCutoff(s1, inputFrame[2]) ELSE s1,
         out  |-> r.out]

ButterLowpassTick(self, inputFrame) ==
    LET s1 == IF self.n > 1 /\ inputFrame[2] # self.cutoff
              THEN ButterLowpassSetCutoff(self, inputFrame[2])
              ELSE self
        r == BiquadTick(s1.biquad, <<inputFrame[1]>>)
    IN  [self |-> [s1 EXCEPT !.biquad = r.self], out |-> r.out]

ButterLowpassRoute(self, inputFrame, frequency) ==
    [self |-> self,
     out  |-> <<SignalFilter(inputFrame[1], 0,
                    BiquadCoefsResponse(self.biquad.coefs,
                                        Omega(frequency, self.sample_rate)))>>]

(***************************************************************************)
(* Resonator with n inputs (1 or 3): a biquad, the sample rate, the center *)
(* and the bandwidth.                                                      *)
(***************************************************************************)
ResonatorSetCenterBandwidth(self, center, bandwidth) ==
    [self EXCEPT !.biquad = BiquadSetCoefs(self.biquad,
                                resonator(self.sample_rate, center, bandwidth)),
                 !.center = center,
                 !.bandwidth = bandwidth]

\* No condition on center or bandwidth is checked.
ResonatorNew(n, center, bandwidth) ==
    LET node0 == [class |-> "Resonator", n |-> n, biquad |-> BiquadNew,
                  sample_rate |-> DEFAULT_SR, center |-> center,
                  bandwidth |-> bandwidth]
    IN  ResonatorSetCenterBandwidth(
            [node0 EXCEPT !.biquad = BiquadReset(node0.biquad)],
            center, bandwidth)

ResonatorReset(self) == [self EXCEPT !.biquad = BiquadReset(self.biquad)]

ResonatorSetSampleRate(self, sample_rate) ==
    LET s1 == [self EXCEPT !.sample_rate = sample_rate]
    IN  ResonatorSetCenterBandwidth(s1, s1.center, s1.bandwidth)

ResonatorTick(self, inputFrame) ==
    LET s1 == IF self.n >= 3 /\ (inputFrame[2] # self.center
                                   \/ inputFrame[3] # self.bandwidth)
              THEN [self EXCEPT
                       !.biquad = BiquadSetCoefs(self.biquad,
                                      resonator(self.sample_rate,
                                                inputFrame[2], inputFrame[3])),
                       !.center = inputFrame[2],
                       !.bandwidth = inputFrame[3]]
              ELSE self
        r == BiquadTick(s1.biquad, <<inputFrame[1]>>)
    IN  [self |-> [s1 EXCEPT !.biquad = r.self], out |-> r.out]

ResonatorRoute(self, inputFrame, frequency) ==
    [self |-> self,
     out  |-> <<SignalFilter(inputFrame[1], 0,
                    BiquadCoefsResponse(self.biquad.coefs,
                                        Omega(frequency, self.sample_rate)))>>]

(***************************************************************************)
(* Lowpole with n inputs (1 or 2): the last output, the coefficient, the   *)
(* cutoff and the sample rate.                                             *)
(***************************************************************************)
LowpoleDefault(n) ==
    [class |-> "Lowpole", n |-> n, value |-> 0, coeff |-> 0, cutoff |-> 0,
     sample_rate |-> 0]

LowpoleSetCutoff(self, cutoff) ==
    [self EXCEPT !.cutoff = cutoff,
                 !.coeff = exp(((0 - TAU) * cutoff) \div self.sample_rate)]

LowpoleNew(n, cutoff) ==
    LowpoleSetCutoff([class |-> "Lowpole", n |-> n, value |-> 0, coeff |-> 0,
                      cutoff |-> cutoff, sample_rate |-> DEFAULT_SR], cutoff)

LowpoleReset(self) == [self EXCEPT !.value = 0]

LowpoleSetSampleRate(self, sample_rate) ==
    LET s1 == [self EXCEPT !.sample_rate = sample_rate]
    IN  LowpoleSetCutoff(s1, s1.cutoff)

LowpoleTick(self, inputFrame) ==
    LET s1 == IF self.n > 1 /\ inputFrame[2] # self.cutoff
              THEN LowpoleSetCutoff(self, inputFrame[2])
              ELSE self
        x == inputFrame[1]
        value == FMul(Scale - s1.coeff, x) + FMul(s1.coeff, s1.value)
    IN  [self |-> [s1 EXCEPT !.value = value], out |-> <<value>>]

\* A route that clears the filter's history.
LowpoleRouteMutClears(self, inputFrame, frequency) ==
    [self |-> [self EXCEPT !.value = 0], out |-> <<SignalUnknown>>]

LowpoleRoute(self, inputFrame, frequency) ==
    LET c == self.coeff
        f == (frequency * TAU) \div self.sample_rate
        z1 == FromPolar(0 - f)
    IN  [self |-> self,
         out  |-> <<SignalFilter(inputFrame[1], 0,
                        ComplexFDiv(re(Scale - c),
                            ComplexAdd(re(Scale),
                                       ComplexFMul(re(0 - c), z1))))>>]

(***************************************************************************)
(* DCBlock: the last input and output, the cutoff, the coefficient and the *)
(* sample rate.                                                            *)
(***************************************************************************)
DCBlockDefault ==
    [class |-> "DCBlock", x1 |-> 0, y1 |-> 0, cutoff |-> 0, coeff |-> 0,
     sample_rate |-> 0]

DCBlockSetCutoff(self, cutoff) ==
    [self EXCEPT !.cutoff = cutoff,
                 !.coeff = Scale - (TAU * cutoff) \div self.sample_rate]

DCBlockReset(self) == [self EXCEPT !.x1 = 0, !.y1 = 0]

DCBlockSetSampleRate(self, sample_rate) ==
    LET s1 == [self EXCEPT !.sample_rate = sample_rate]
    IN  DCBlockSetCutoff(s1, s1.cutoff)

DCBlockNew(cutoff) ==
    DCBlockSetSampleRate(
        DCBlockReset([DCBlockDefault EXCEPT !.cutoff = cutoff]), DEFAULT_SR)

DCBlockTick(self, inputFrame) ==
    LET x == inputFrame[1]
        y0 == x - self.x1 + FMul(self.coeff, self.y1)
    IN  [self |-> [self EXCEPT !.x1 = x, !.y1 = y0], out |-> <<y0>>]

DCBlockRoute(self, inputFrame, frequency) ==
    LET c == self.coeff
        f == (frequency * TAU) \div self.sample_rate
        z1 == FromPolar(0 - f)
    IN  [self |-> self,
         out  |-> <<SignalFilter(inputFrame[1], 0,
                        ComplexFDiv(ComplexSub(re(Scale), z1),
                            ComplexAdd(re(Scale),
                                       ComplexFMul(re(0 - c), z1))))>>]

(***************************************************************************)
(* Pinkpass: seven state variables and the sample rate.                    *)
(***************************************************************************)
PinkpassDefault ==
    [class |-> "Pinkpass", b0 |-> 0, b1 |-> 0, b2 |-> 0, b3 |-> 0, b4 |-> 0,
     b5 |-> 0, b6 |-> 0, sample_rate |-> 0]

PinkpassNew == [PinkpassDefault EXCEPT !.sample_rate = DEFAULT_SR]

\* A reset that keeps b6.
PinkpassResetMutKeepsLast(self) ==
    [self EXCEPT !.b0 = 0, !.b1 = 0, !.b2 = 0, !.b3 = 0, !.b4 = 0, !.b5 = 0]

PinkpassReset(self) ==
    [self EXCEPT !.b0 = 0, !.b1 = 0, !.b2 = 0, !.b3 = 0, !.b4 = 0, !.b5 = 0,
                 !.b6 = 0]

PinkpassSetSampleRate(self, sample_rate) ==
    [self EXCEPT !.sample_rate = sample_rate]

PinkpassTick(self, inputFrame) ==
    LET x == inputFrame[1]
        b0 == FMul(998, self.b0) + FMul(x, 55)
        b1 == FMul(993, self.b1) + FMul(x, 75)
        b2 == FMul(969, self.b2) + FMul(x, 153)
        b3 == FMul(866, self.b3) + FMul(x, 310)
        b4 == FMul(550, self.b4) + FMul(x, 532)
        b5 == FMul(0 - 761, self.b5) - FMul(x, 16)
        out == FMul(b0 + b1 + b2 + b3 + b4 + b5 + self.b6 + FMul(x, 536), 115)
    IN  [self |-> [self EXCEPT !.b0 = b0, !.b1 = b1, !.b2 = b2, !.b3 = b3,
                               !.b4 = b4, !.b5 = b5, !.b6 = FMul(x, 115)],
         out  |-> <<out>>]

\* gain / (1 - pole * z1).
PinkpassPole(gain, pole, z1) ==
    ComplexFDiv(re(gain), ComplexSub(re(Scale), ComplexFMul(re(pole), z1)))

PinkpassRoute(self, inputFrame, frequency) ==
    LET f == (frequency * TAU) \div self.sample_rate
        z1 == FromPolar(0 - f)
        sum == ComplexAdd(PinkpassPole(55, 998, z1),
               ComplexAdd(PinkpassPole(75, 993, z1),
               ComplexAdd(PinkpassPole(153, 969, z1),
               ComplexAdd(PinkpassPole(310, 866, z1),
               ComplexAdd(PinkpassPole(532, 550, z1),
               ComplexAdd(PinkpassPole(0 - 16, 0 - 761, z1),
               ComplexAdd(ComplexFMul(re(115), z1), re(536))))))))
    IN  [self |-> self,
         out  |-> <<SignalFilter(inputFrame[1], 0,
                                 ComplexFMul(sum, re(115)))>>]

(***************************************************************************)
(* Allpole with n inputs (1 or 2): eta, the last input and output and the  *)
(* sample rate.                                                            *)
(***************************************************************************)
AllpoleDefault(n) ==
    [class |-> "Allpole", n |-> n, eta |-> 0, x1 |-> 0, y1 |-> 0,
     sample_rate |-> 0]

AllpoleSetDelay(self, delay) ==
    [self EXCEPT !.eta = FDiv(Scale - delay, Scale + delay)]

AllpoleNew(n, delay) ==
    IF ~(delay > 0) THEN Panic
    ELSE AllpoleSetDelay([class |-> "Allpole", n |-> n, eta |-> 0, x1 |-> 0,
                          y1 |-> 0, sample_rate |-> DEFAULT_SR], delay)

AllpoleReset(self) == [self EXCEPT !.x1 = 0, !.y1 = 0]

AllpoleSetSampleRate(self, sample_rate) ==
    [self EXCEPT !.sample_rate = sample_rate]

AllpoleTick(self, inputFrame) ==
    LET s1 == IF self.n > 1 THEN AllpoleSetDelay(self, inputFrame[2]) ELSE self
        x0 == inputFrame[1]
        y0 == FMul(s1.eta, x0 - s1.y1) + s1.x1
    IN  [self |-> [s1 EXCEPT !.x1 = x0, !.y1 = y0], out |-> <<y0>>]

\* A response without the zero of the filter: the gain is 1 / (1 + eta * z1).
AllpoleRouteMutNoZero(self, inputFrame, frequency) ==
    LET eta == self.eta
        z1 == FromPolar((0 - (frequency * TAU)) \div self.sample_rate)
    IN  [self |-> self,
         out  |-> <<SignalFilter(inputFrame[1], 0,
                        ComplexFDiv(re(Scale),
                            ComplexAdd(re(Scale),
                                       ComplexFMul(re(eta), z1))))>>]

AllpoleRoute(self, inputFrame, frequency) ==
    LET eta == self.eta
        z1 == FromPolar((0 - (frequency * TAU)) \div self.sample_rate)
    IN  [self |-> self,
         out  |-> <<SignalFilter(inputFrame[1], 0,
                        ComplexFDiv(ComplexAdd(re(eta), z1),
                            ComplexAdd(re(Scale),
                                       ComplexFMul(re(eta), z1))))>>]

(***************************************************************************)
(* Highpole with n inputs (1 or 2): the last input and output, the         *)
(* coefficient, the cutoff and the sample rate.                            *)
(***************************************************************************)
HighpoleDefault(n) ==
    [class |-> "Highpole", n |-> n, x1 |-> 0, y1 |-> 0, coeff |-> 0,
     cutoff |-> 0, sample_rate |-> 0]

HighpoleSetCutoff(self, cutoff) ==
    [self EXCEPT !.cutoff = cutoff,
                 !.coeff = exp(((0 - TAU) * cutoff) \div self.sample_rate)]

HighpoleNew(n, cutoff) ==
    HighpoleSetCutoff([class |-> "Highpole", n |-> n, x1 |-> 0, y1 |-> 0,
                       coeff |-> 0, cutoff |-> cutoff,
                       sample_rate |-> DEFAULT_SR], cutoff)

HighpoleReset(self) == [self EXCEPT !.x1 = 0, !.y1 = 0]

HighpoleSetSampleRate(self, sample_rate) ==
    LET s1 == [self EXCEPT !.sample_rate = sample_rate]
    IN  HighpoleSetCutoff(s1, s1.cutoff)

HighpoleTick(self, inputFrame) ==
    LET s1 == IF self.n > 1 /\ inputFrame[2] # self.cutoff
              THEN HighpoleSetCutoff(self, inputFrame[2])
              ELSE self
        x0 == inputFrame[1]
        y0 == FMul(s1.coeff, s1.y1 + x0 - s1.x1)
    IN  [self |-> [s1 EXCEPT !.x1 = x0, !.y1 = y0], out |-> <<y0>>]

HighpoleRoute(self, inputFrame, frequency) ==
    LET c == self.coeff
        f == (frequency * TAU) \div self.sample_rate
        z1 == FromPolar(0 - f)
    IN  [self |-> self,
         out  |-> <<SignalFilter(inputFrame[1], 0,
                        ComplexFDiv(ComplexFMul(re(c), ComplexSub(re(Scale), z1)),
                            ComplexSub(re(Scale),
                                       ComplexFMul(re(c), z1))))>>]

(***************************************************************************)
(* The filter nodes behind the trait: the call goes to the node's class.   *)
(***************************************************************************)
Modulated == {"ButterLowpass", "Resonator", "Lowpole", "Allpole", "Highpole"}

FilterInputs(self) == IF self.class \in Modulated THEN self.n ELSE 1

FilterOutputs(self) == 1

FilterReset(self) ==
    CASE self.class = "Biquad" -> BiquadReset(self)
      [] self.class = "ButterLowpass" -> ButterLowpassReset(self)
      [] self.class = "Resonator" -> ResonatorReset(self)
      [] self.class = "Lowpole" -> LowpoleReset(self)
      [] self.class = "DCBlock" -> DCBlockReset(self)
      [] self.class = "Pinkpass" -> PinkpassReset(self)
      [] self.class = "Allpole" -> AllpoleReset(self)
      [] self.class = "Highpole" -> HighpoleReset(self)

FilterSetSampleRate(self, sample_rate) ==
    CASE self.class = "Biquad" -> BiquadSetSampleRate(self, sample_rate)
      [] self.class = "ButterLowpass" ->
             ButterLowpassSetSampleRate(self, sample_rate)
      [] self.class = "Resonator" -> ResonatorSetSampleRate(self, sample_rate)
      [] self.class = "Lowpole" -> LowpoleSetSampleRate(self, sample_rate)
      [] self.class = "DCBlock" -> DCBlockSetSampleRate(self, sample_rate)
      [] self.class = "Pinkpass" -> PinkpassSetSampleRate(self, sample_rate)
      [] self.class = "Allpole" -> AllpoleSetSampleRate(self, sample_rate)
      [] self.class = "Highpole" -> HighpoleSetSampleRate(self, sample_rate)

FilterTick(self, inputFrame) ==
    CASE self.class = "Biquad" -> BiquadTick(self, inputFrame)
      [] self.class = "ButterLowpass" -> ButterLowpassTick(self, inputFrame)
      [] self.class = "Resonator" -> ResonatorTick(self, inputFrame)
      [] self.class = "Lowpole" -> LowpoleTick(self, inputFrame)
      [] self.class = "DCBlock" -> DCBlockTick(self, inputFrame)
      [] self.class = "Pinkpass" -> PinkpassTick(self, inputFrame)
      [] self.class = "Allpole" -> AllpoleTick(self, inputFrame)
      [] self.class = "Highpole" -> HighpoleTick(self, inputFrame)

FilterRoute(self, inputFrame, frequency) ==
    CASE self.class = "Biquad" -> BiquadRoute(self, inputFrame, frequency)
      [] self.class = "ButterLowpass" ->
             ButterLowpassRoute(self, inputFrame, frequency)
      [] self.class = "Resonator" -> ResonatorRoute(self, inputFrame, frequency)
      [] self.class = "Lowpole" -> LowpoleRoute(self, inputFrame, frequency)
      [] self.class = "DCBlock" -> DCBlockRoute(self, inputFrame, frequency)
      [] self.class = "Pinkpass" -> PinkpassRoute(self, inputFrame, frequency)
      [] self.class = "Allpole" -> AllpoleRoute(self, inputFrame, frequency)
      [] self.class = "Highpole" -> HighpoleRoute(self, inputFrame, frequency)

(***************************************************************************)
(* The provided methods of AudioUnit48.  self is any unit behind the       *)
(* trait: a unit, a filter node or one of the two adapters; the           *)
(* calls to inputs, outputs, route and tick go to its implementation.      *)
(***************************************************************************)
IsBlockRate(self) == "index" \in DOMAIN self

IsBigBlock(self) == "source" \in DOMAIN self

IsRouted(self) == "paths" \in DOMAIN self

IsFilter(self) == "class" \in DOMAIN self

SelfInputs(self) ==
    IF IsBlockRate(self) THEN BlockRateInputs(self)
    ELSE IF IsBigBlock(self) THEN BigBlockInputs(self)
    ELSE IF IsFilter(self) THEN FilterInputs(self)
    ELSE UnitInputs(self)

SelfOutputs(self) ==
    IF IsBlockRate(self) THEN BlockRateOutputs(self)
    ELSE IF IsBigBlock(self) THEN BigBlockOutputs(self)
    ELSE IF IsFilter(self) THEN FilterOutputs(self)
    ELSE UnitOutputs(self)

SelfRoute(self, frame, frequency) ==
    IF IsBlockRate(self)
    THEN LET r == BlockRateRoute(self, frame, frequency)
         IN  [self |-> r.adapter, out |-> r.out]
    ELSE IF IsBigBlock(self)
    THEN LET r == BigBlockRoute(self, frame, frequency)
         IN  [self |-> r.adapter, out |-> r.out]
    ELSE IF IsFilter(self) THEN FilterRoute(self, frame, frequency)
    ELSE IF IsRouted(self)
    THEN LET r == RoutedUnitRoute(self, frame, frequency)
         IN  [self |-> r.unit, out |-> r.out]
    ELSE LET r == UnitRoute(self, frame, frequency)
         IN  [self |-> r.unit, out |-> r.out]

\* tick: out is one sample per output.
SelfTick(self, frame) ==
    IF IsBlockRate(self)
    THEN LET r == BlockRateTick(self)
         IN  [self |-> [unit |-> r.unit, channels |-> r.channels,
                        buffer |-> r.buffer, index |-> r.index],
              out  |-> [c \in 1..Len(r.out) |-> r.out[c][1]]]
    ELSE IF IsBigBlock(self)
    THEN LET r == BigBlockTick(self, frame)
         IN  [self |-> [source |-> r.source, input |-> r.input,
                        output |-> r.output],
              out  |-> [c \in 1..Len(r.out) |-> r.out[c][1]]]
    ELSE IF IsFilter(self) THEN FilterTick(self, frame)
    ELSE LET r == UnitTick(self, frame)
         IN  [self |-> r.unit, out |-> r.out]

SelfReset(self) ==
    IF IsBlockRate(self) THEN BlockRateReset(self)
    ELSE IF IsBigBlock(self) THEN BigBlockReset(self)
    ELSE IF IsFilter(self) THEN FilterReset(self)
    ELSE UnitReset(self)

SelfSetSampleRate(self, sample_rate) ==
    IF IsBlockRate(self) THEN BlockRateSetSampleRate(self, sample_rate)
    ELSE IF IsBigBlock(self) THEN BigBlockSetSampleRate(self, sample_rate)
    ELSE IF IsFilter(self) THEN FilterSetSampleRate(self, sample_rate)
    ELSE UnitSetSampleRate(self, sample_rate)

(***************************************************************************)
(* tick on caller supplied slices.  inputLen and outputLen are the lengths *)
(* of the two slices; debug tells whether the build keeps debug_assert!.   *)
(* ret is Panic when the call panics, and self is the state the panic      *)
(* leaves behind.                                                          *)
(***************************************************************************)
\* copy_from_slice of the ticked frame r.out into the output slice: it
\* panics, after the node has ticked, unless the lengths are equal.
Copied(r, fits) ==
    IF fits THEN [self |-> r.self, ret |-> None, out |-> r.out]
    ELSE [self |-> r.self, ret |-> Panic, out |-> <<>>]

\* An<X>::tick: the two debug assertions, then Frame::from_slice (which
\* panics on a slice of another length), the node's tick, and
\* copy_from_slice.
AnTick(self, frame, inputLen, outputLen, debug) ==
    IF debug /\ (inputLen # SelfInputs(self) \/ outputLen # SelfOutputs(self))
    THEN [self |-> self, ret |-> Panic, out |-> <<>>]
    ELSE IF inputLen # SelfInputs(self)
    THEN [self |-> self, ret |-> Panic, out |-> <<>>]
    ELSE Copied(SelfTick(self, frame), outputLen = SelfOutputs(self))

\* The adapter a around the unit that the call r left behind.
Wrapping(a, r) ==
    [self |-> [a EXCEPT !.source = r.self], ret |-> r.ret, out |-> r.out]

\* BigBlockAdapter48::tick hands both slices to the wrapped unit.
BigBlockTickSlices(a, frame, inputLen, outputLen, debug) ==
    Wrapping(a, AnTick(a.source, frame, inputLen, outputLen, debug))

\* BlockRateAdapter48::tick never looks at its input slice; it refills when
\* the cursor is at the end, writes output[channel] for every channel (an
\* index past the end of the slice panics) and advances the cursor.
BlockRateTickSlices(a, inputLen, outputLen) ==
    LET f == IF a.index = MAX_BUFFER_SIZE THEN BlockRateRefill(a, <<>>) ELSE a
    IN  IF outputLen < f.channels
        THEN [self |-> f, ret |-> Panic, out |-> <<>>]
        ELSE [self |-> [f EXCEPT !.index = f.index + 1], ret |-> None,
              out  |-> [c \in 1..f.channels |-> BufferAt(f.buffer, c)[f.index + 1]]
                       \o <<>>]

SelfTickSlices(self, frame, inputLen, outputLen, debug) ==
    IF IsBlockRate(self) THEN BlockRateTickSlices(self, inputLen, outputLen)
    ELSE IF IsBigBlock(self)
    THEN BigBlockTickSlices(self, frame, inputLen, outputLen, debug)
    ELSE AnTick(self, frame, inputLen, outputLen, debug)

\* process: out holds the frames written per output channel.
SelfProcess(self, size, in) ==
    IF IsBlockRate(self)
    THEN LET r == BlockRateProcess(self, size, in)
         IN  [self |-> [unit |-> r.unit, channels |-> r.channels,
                        buffer |-> r.buffer, index |-> r.index],
              out  |-> r.out]
    ELSE LET r == BigBlockProcess(self, size, in)
         IN  [self |-> [source |-> r.source, input |-> r.input,
                        output |-> r.output],
              out  |-> r.out]

SelfPing(self, probe, hash) ==
    IF IsBlockRate(self)
    THEN LET r == BlockRatePing(self, probe, hash)
         IN  [self |-> r.adapter, ret |-> r.ret]
    ELSE LET r == BigBlockPing(self, probe, hash)
         IN  [self |-> r.adapter, ret |-> r.ret]

SelfAllocate(self) ==
    IF IsBlockRate(self) THEN BlockRateAllocate(self) ELSE BigBlockAllocate(self)

SelfClone(self) ==
    IF IsBlockRate(self) THEN BlockRateClone(self) ELSE BigBlockClone(self)

\* A response that seeds the inputs with latencies.
ResponseMutLatencySeed(self, outputIndex, frequency) ==
    IF ~(outputIndex < SelfOutputs(self)) THEN [self |-> self, ret |-> Panic]
    ELSE LET inputFrame == [i \in 1..SelfInputs(self) |-> SignalLatency(0)]
             r == SelfRoute(self, inputFrame, frequency)
             response == r.out[outputIndex + 1]
         IN  [self |-> r.self,
              ret  |-> IF response.tag = "Response" THEN Some(response.value)
                       ELSE None]

Response(self, outputIndex, frequency) ==
    IF ~(outputIndex < SelfOutputs(self)) THEN [self |-> self, ret |-> Panic]
    ELSE LET inputFrame == [i \in 1..SelfInputs(self) |->
                          SignalResponse(<<1, 0>>, 0)]
             r == SelfRoute(self, inputFrame, frequency)
             response == r.out[outputIndex + 1]
         IN  [self |-> r.self,
              ret  |-> IF response.tag = "Response" THEN Some(response.value)
                       ELSE None]

ResponseDb(self, outputIndex, frequency) ==
    IF ~(outputIndex < SelfOutputs(self)) THEN [self |-> self, ret |-> Panic]
    ELSE LET r == Response(self, outputIndex, frequency)
         IN  [self |-> r.self,
              ret  |-> IF r.ret.tag = "Some" THEN Some(AmpDbNorm(r.ret.value))
                       ELSE r.ret]

\* The loop of latency over the outputs, from outputIndex on.
RECURSIVE LatencyLoop(_, _, _, _)
LatencyLoop(result, response, outputIndex, outputs) ==
    IF ~(outputIndex < outputs) THEN result
    ELSE LET signal == response[outputIndex + 1]
             next == IF signal.tag # "Latency" THEN result
                     ELSE IF result = None THEN Some(signal.value)
                     ELSE Some(Min(result.value, signal.value))
         IN  LatencyLoop(next, response, outputIndex + 1, outputs)

\* A latency that keeps the latency of the first outputIndex that has one.
LatencyMutFirst(self) ==
    IF SelfOutputs(self) = 0 THEN [self |-> self, ret |-> None]
    ELSE LET inputFrame == [i \in 1..SelfInputs(self) |-> SignalLatency(0)]
             r == SelfRoute(self, inputFrame, 1)
             found == {c \in 1..SelfOutputs(self) : r.out[c].tag = "Latency"}
         IN  [self |-> r.self,
              ret  |-> IF found = {} THEN None
                       ELSE Some(r.out[CHOOSE c \in found :
                                           \A d \in found : c <= d].value)]

Latency(self) ==
    IF SelfOutputs(self) = 0 THEN [self |-> self, ret |-> None]
    ELSE LET inputFrame == [i \in 1..SelfInputs(self) |-> SignalLatency(0)]
             r == SelfRoute(self, inputFrame, 1)
         IN  [self |-> r.self,
              ret  |-> LatencyLoop(None, r.out, 0, SelfOutputs(self))]

\* A sample value x / 2, as a fraction <<numerator, denominator>>.
Half(x) == IF x % 2 = 0 THEN <<x \div 2, 1>> ELSE <<x, 2>>

\* A get_mono that returns the first output of a unit with two outputs.
GetMonoMutFirst(self) ==
    IF SelfOutputs(self) \in {1, 2}
    THEN LET r == SelfTick(self, <<>>)
         IN  [self |-> r.self, ret |-> <<r.out[1], 1>>]
    ELSE [self |-> self, ret |-> Panic]

\* debug_assert!(self.inputs() == 0) holds: the caller's unit is a generator.
GetMono(self) ==
    IF SelfOutputs(self) = 1
    THEN LET r == SelfTick(self, <<>>)
         IN  [self |-> r.self, ret |-> <<r.out[1], 1>>]
    ELSE IF SelfOutputs(self) = 2
    THEN LET r == SelfTick(self, <<>>)
         IN  [self |-> r.self, ret |-> Half(r.out[1] + r.out[2])]
    ELSE [self |-> self, ret |-> Panic]

\* A get_stereo that ticks the unit before it looks at the output count.
GetStereoMutTickFirst(self) ==
    LET r == SelfTick(self, <<>>)
    IN  IF SelfOutputs(self) = 1
        THEN [self |-> r.self, ret |-> <<r.out[1], r.out[1]>>]
        ELSE IF SelfOutputs(self) = 2
        THEN [self |-> r.self, ret |-> <<r.out[1], r.out[2]>>]
        ELSE [self |-> r.self, ret |-> Panic]

\* debug_assert!(self.inputs() == 0) holds: the caller's unit is a generator.
GetStereo(self) ==
    IF SelfOutputs(self) = 1
    THEN LET r == SelfTick(self, <<>>)
         IN  [self |-> r.self, ret |-> <<r.out[1], r.out[1]>>]
    ELSE IF SelfOutputs(self) = 2
    THEN LET r == SelfTick(self, <<>>)
         IN  [self |-> r.self, ret |-> <<r.out[1], r.out[2]>>]
    ELSE [self |-> self, ret |-> Panic]

(***************************************************************************)
(* The state machine of one adapter and its caller.                        *)
(***************************************************************************)
SampleRates == {DEFAULT_SR, 48000}

\* The sizes a caller that only ticks, processes and resets asks for.
Sizes == {0, 1, SmallSize, MAX_BUFFER_SIZE, MAX_BUFFER_SIZE + 1, BigSize}

\* The sizes a caller that makes every call of the interface asks for.
FewSizes == {0, 1, SmallSize, MAX_BUFFER_SIZE + 1}

Frequencies == {440}

\* The input patterns of a caller that only ticks, processes and resets.
Patterns == 1..NumPatterns

\* The input pattern of a caller that makes every call of the interface.
OnePattern == {1}

\* The seeds of the hashes an adapter is pinged with.
PingSeeds == {1, 2}

InputSample(p, k, i) == (p * i + k) % PhaseMod

InputBuffers(p, nin, size) ==
    [k \in 1..nin |-> [i \in 1..size |-> InputSample(p, k, i)] \o <<>>] \o <<>>

SignalFrames(n) ==
    { [k \in 1..n |-> SignalLatency(0)],
      [k \in 1..n |-> SignalResponse(<<1, 0>>, 0)] }

NoUnit == UnitNew(0, 0, 0)

NoHash == AttoHashNew(0)

BRA == [unit |-> unit, channels |-> channels, buffer |-> buffer, index |-> index]

BBA == [source |-> source, input |-> input, output |-> output]

Observed(op, size, out, expect, calls, probe, hash, ret, routed) ==
    [op |-> op, size |-> size, out |-> out, expect |-> expect, calls |-> calls,
     probe |-> probe, hash |-> hash, ret |-> ret, routed |-> routed,
     cursor |-> index]

NoPing ==
    [graph |-> 0, at |-> 0, probe |-> TRUE, hash |-> NoHash, ret |-> NoHash,
     before |-> NoUnit]

NoNode == [class |-> "None"]

NoCall == [op |-> "new"]

NoLife == [ticks |-> 0, rated |-> FALSE]

NodeIdle ==
    /\ node = NoNode
    /\ seen = NoCall
    /\ life = NoLife

PingIdle ==
    /\ nodes = <<>>
    /\ cur = <<>>
    /\ pos = <<>>
    /\ start = <<>>
    /\ committed = <<>>
    /\ lastPing = NoPing

InitBlockRate ==
    \E id \in {MaxId} :
        LET nout == 2
            a == BlockRateNew(UnitNew(id, 0, nout))
        IN  /\ kind = "BlockRate"
            /\ unit = a.unit
            /\ channels = a.channels
            /\ buffer = a.buffer
            /\ index = a.index
            /\ source = NoUnit
            /\ input = <<>>
            /\ output = <<>>
            /\ ref = a.unit
            /\ ctor = [inputs |-> BlockRateInputs(a), outputs |-> BlockRateOutputs(a),
                       nin |-> 0, nout |-> nout]

InitBigBlock ==
    \E id \in {MaxId} :
        LET nin == 2
            nout == 1
            a == BigBlockNew(UnitNew(id, nin, nout))
        IN  /\ kind = "BigBlock"
            /\ unit = NoUnit
            /\ channels = 0
            /\ buffer = <<>>
            /\ index = MAX_BUFFER_SIZE
            /\ source = a.source
            /\ input = a.input
            /\ output = a.output
            /\ ref = a.source
            /\ ctor = [inputs |-> BigBlockInputs(a), outputs |-> BigBlockOutputs(a),
                       nin |-> nin, nout |-> nout]

Init ==
    /\ InitBlockRate \/ InitBigBlock
    /\ last = Observed("new", 0, <<>>, <<>>, <<>>, FALSE, NoHash, NoHash, <<>>)
    /\ emitted = 0
    /\ PingIdle
    /\ NodeIdle

SetBlockRate(a) ==
    /\ unit' = a.unit
    /\ channels' = a.channels
    /\ buffer' = a.buffer
    /\ index' = a.index
    /\ UNCHANGED <<kind, source, input, output, ctor, pingVars, nodeVars>>

SetBigBlock(a) ==
    /\ source' = a.source
    /\ input' = a.input
    /\ output' = a.output
    /\ UNCHANGED <<kind, unit, channels, buffer, index, ctor, pingVars, nodeVars>>

(***************************************************************************)
(* Calls on a BlockRateAdapter48.                                          *)
(***************************************************************************)
BlockRateAdapterTick ==
    /\ kind = "BlockRate"
    /\ LET r == BlockRateTick(BRA)
           e == UnitProcess(ref, 1, <<>>)
       IN  /\ emitted + 1 <= MaxT
           /\ SetBlockRate(r)
           /\ ref' = e.unit
           /\ last' = Observed("tick", 1, r.out, e.out, r.calls, FALSE,
                               NoHash, NoHash, <<>>)
           /\ emitted' = emitted + 1

BlockRateAdapterProcess(sizes) ==
    /\ kind = "BlockRate"
    /\ \E size \in sizes :
           LET r == BlockRateProcess(BRA, size, <<>>)
               e == UnitProcess(ref, size, <<>>)
           IN  /\ emitted + size <= MaxT
               /\ SetBlockRate(r)
               /\ ref' = e.unit
               /\ last' = Observed("process", size, r.out, e.out, r.calls, FALSE,
                                   NoHash, NoHash, <<>>)
               /\ emitted' = emitted + size

BlockRateAdapterReset ==
    /\ kind = "BlockRate"
    /\ SetBlockRate(BlockRateReset(BRA))
    /\ ref' = UnitReset(ref)
    /\ last' = Observed("reset", 0, <<>>, <<>>, <<>>, FALSE, NoHash, NoHash, <<>>)
    /\ emitted' = 0

BlockRateAdapterSetSampleRate ==
    /\ kind = "BlockRate"
    /\ \E sample_rate \in SampleRates :
           /\ SetBlockRate(BlockRateSetSampleRate(BRA, sample_rate))
           /\ ref' = UnitSetSampleRate(ref, sample_rate)
           /\ last' = Observed("set_sample_rate", sample_rate, <<>>, <<>>, <<>>,
                               FALSE, NoHash, NoHash, <<>>)
    /\ UNCHANGED emitted

BlockRateAdapterPing ==
    /\ kind = "BlockRate"
    /\ \E probe \in BOOLEAN, seed \in PingSeeds :
           LET hash == AttoHashNew(seed)
               r == BlockRatePing(BRA, probe, hash)
           IN  /\ SetBlockRate(r.adapter)
               /\ ref' = Ping(ref, probe, hash).unit
               /\ last' = Observed("ping", 0, <<>>, <<>>, <<>>, probe, hash,
                                   r.ret, <<>>)
    /\ UNCHANGED emitted

BlockRateAdapterRoute ==
    /\ kind = "BlockRate"
    /\ \E frame \in SignalFrames(BlockRateInputs(BRA)), frequency \in Frequencies :
           LET r == BlockRateRoute(BRA, frame, frequency)
           IN  /\ SetBlockRate(r.adapter)
               /\ last' = Observed("route", frequency, <<>>, <<>>, <<>>, FALSE,
                                   NoHash, NoHash, r.out)
    /\ UNCHANGED <<ref, emitted>>

BlockRateAdapterAllocate ==
    /\ kind = "BlockRate"
    /\ SetBlockRate(BlockRateAllocate(BRA))
    /\ ref' = UnitAllocate(ref)
    /\ last' = Observed("allocate", 0, <<>>, <<>>, <<>>, FALSE, NoHash, NoHash, <<>>)
    /\ UNCHANGED emitted

(***************************************************************************)
(* Calls on a BigBlockAdapter48.                                           *)
(***************************************************************************)
BigBlockAdapterTick(patterns) ==
    /\ kind = "BigBlock"
    /\ \E p \in patterns :
           LET frame == [k \in 1..BigBlockInputs(BBA) |-> InputSample(p, k, 1)]
               r == BigBlockTick(BBA, frame)
               e == UnitProcess(ref, 1, [k \in 1..Len(frame) |-> <<frame[k]>>])
           IN  /\ SetBigBlock(r)
               /\ ref' = e.unit
               /\ last' = Observed("tick", 1, r.out, e.out, r.calls, FALSE,
                                   NoHash, NoHash, <<>>)
               /\ UNCHANGED emitted

BigBlockAdapterProcess(sizes, patterns) ==
    /\ kind = "BigBlock"
    /\ \E size \in sizes, p \in patterns :
           LET in == InputBuffers(p, BigBlockInputs(BBA), size)
               r == BigBlockProcess(BBA, size, in)
               e == UnitProcess(ref, size, in)
           IN  /\ SetBigBlock(r)
               /\ ref' = e.unit
               /\ last' = Observed("process", size, r.out, e.out, r.calls, FALSE,
                                   NoHash, NoHash, <<>>)
               /\ UNCHANGED emitted

BigBlockAdapterReset ==
    /\ kind = "BigBlock"
    /\ SetBigBlock(BigBlockReset(BBA))
    /\ ref' = UnitReset(ref)
    /\ last' = Observed("reset", 0, <<>>, <<>>, <<>>, FALSE, NoHash, NoHash, <<>>)
    /\ UNCHANGED emitted

BigBlockAdapterSetSampleRate ==
    /\ kind = "BigBlock"
    /\ \E sample_rate \in SampleRates :
           /\ SetBigBlock(BigBlockSetSampleRate(BBA, sample_rate))
           /\ ref' = UnitSetSampleRate(ref, sample_rate)
           /\ last' = Observed("set_sample_rate", sample_rate, <<>>, <<>>, <<>>,
                               FALSE, NoHash, NoHash, <<>>)
    /\ UNCHANGED emitted

BigBlockAdapterPing ==
    /\ kind = "BigBlock"
    /\ \E probe \in BOOLEAN, seed \in PingSeeds :
           LET hash == AttoHashNew(seed)
               r == BigBlockPing(BBA, probe, hash)
           IN  /\ SetBigBlock(r.adapter)
               /\ ref' = Ping(ref, probe, hash).unit
               /\ last' = Observed("ping", 0, <<>>, <<>>, <<>>, probe, hash,
                                   r.ret, <<>>)
    /\ UNCHANGED emitted

BigBlockAdapterRoute ==
    /\ kind = "BigBlock"
    /\ \E frame \in SignalFrames(BigBlockInputs(BBA)), frequency \in Frequencies :
           LET r == BigBlockRoute(BBA, frame, frequency)
           IN  /\ SetBigBlock(r.adapter)
               /\ last' = Observed("route", frequency, <<>>, <<>>, <<>>, FALSE,
                                   NoHash, NoHash, r.out)
    /\ UNCHANGED <<ref, emitted>>

BigBlockAdapterAllocate ==
    /\ kind = "BigBlock"
    /\ SetBigBlock(BigBlockAllocate(BBA))
    /\ ref' = UnitAllocate(ref)
    /\ last' = Observed("allocate", 0, <<>>, <<>>, <<>>, FALSE, NoHash, NoHash, <<>>)
    /\ UNCHANGED emitted

Next ==
    \/ BlockRateAdapterTick
    \/ BlockRateAdapterProcess(FewSizes)
    \/ BlockRateAdapterReset
    \/ BlockRateAdapterSetSampleRate
    \/ BlockRateAdapterPing
    \/ BlockRateAdapterRoute
    \/ BlockRateAdapterAllocate
    \/ BigBlockAdapterTick(OnePattern)
    \/ BigBlockAdapterProcess(FewSizes, OnePattern)
    \/ BigBlockAdapterReset
    \/ BigBlockAdapterSetSampleRate
    \/ BigBlockAdapterPing
    \/ BigBlockAdapterRoute
    \/ BigBlockAdapterAllocate

Spec == Init /\ [][Next]_vars

\* The caller only ticks, processes and resets: no rate change and no ping.
NextChunks ==
    \/ BlockRateAdapterTick
    \/ BlockRateAdapterProcess(Sizes)
    \/ BlockRateAdapterReset
    \/ BigBlockAdapterTick(Patterns)
    \/ BigBlockAdapterProcess(Sizes, Patterns)
    \/ BigBlockAdapterReset

SpecChunks == Init /\ [][NextChunks]_vars

(***************************************************************************)
(* Assembly: two graphs of the same shape, each a sequence of nodes, are   *)
(* pinged node by node, the hash a node returns being handed to the next.  *)
(* The first graph is assembled first; the second is then assembled while  *)
(* its nodes may already produce audio.                                    *)
(***************************************************************************)
Graphs == 1..2

Positions == 1..NumNodes

AdapterIdle ==
    /\ kind = "None"
    /\ unit = NoUnit
    /\ channels = 0
    /\ buffer = <<>>
    /\ index = MAX_BUFFER_SIZE
    /\ source = NoUnit
    /\ input = <<>>
    /\ output = <<>>
    /\ ref = NoUnit
    /\ last = Observed("new", 0, <<>>, <<>>, <<>>, FALSE, NoHash, NoHash, <<>>)
    /\ emitted = 0
    /\ ctor = [inputs |-> 0, outputs |-> 0, nin |-> 0, nout |-> 0]

InitPing ==
    /\ AdapterIdle
    /\ NodeIdle
    /\ \E ids \in [Positions -> 0..MaxId], sa \in 0..MaxStart,
          sb \in 0..MaxStart, pa \in BOOLEAN, pb \in BOOLEAN :
           /\ sb \in {sa, (sa + 1) % (MaxStart + 1)}
           /\ nodes = [g \in Graphs |->
                          [k \in Positions |-> UnitNew(ids[k], 0, 1)]]
           /\ start = <<[hash |-> AttoHashNew(sa), probe |-> pa],
                        [hash |-> AttoHashNew(sb), probe |-> pb]>>
           /\ cur = <<AttoHashNew(sa), AttoHashNew(sb)>>
    /\ pos = [g \in Graphs |-> 1]
    /\ committed = [g \in Graphs |-> {}]
    /\ lastPing = NoPing

\* The next node of graph g is pinged with the hash threaded so far.
PingNode(g) ==
    /\ pos[g] <= NumNodes
    /\ g = 2 => pos[1] > NumNodes
    /\ LET k == pos[g]
           probe == start[g].probe
           r == Ping(nodes[g][k], probe, cur[g])
       IN  /\ nodes' = [nodes EXCEPT ![g][k] = r.unit]
           /\ cur' = [cur EXCEPT ![g] = r.ret]
           /\ pos' = [pos EXCEPT ![g] = k + 1]
           /\ committed' = [committed EXCEPT
                               ![g] = IF probe THEN @ ELSE @ \cup {k}]
           /\ lastPing' = [graph |-> g, at |-> k, probe |-> probe,
                           hash |-> cur[g], ret |-> r.ret,
                           before |-> nodes[g][k]]
    /\ UNCHANGED <<kind, unit, channels, buffer, index, source, input, output,
                   ref, last, emitted, ctor, start, nodeVars>>

Ticks(g) == SumSeq([k \in Positions |-> nodes[g][k].phase])

\* A node of the second graph produces a frame: its audio state advances.
TickNode(k) ==
    /\ pos[1] > NumNodes
    /\ Ticks(2) < MaxNodeT
    /\ nodes' = [nodes EXCEPT ![2][k] = UnitTick(nodes[2][k], <<>>).unit]
    /\ UNCHANGED <<kind, unit, channels, buffer, index, source, input, output,
                   ref, last, emitted, ctor, cur, pos, start, committed,
                   lastPing, nodeVars>>

NextPing ==
    \/ \E g \in Graphs : PingNode(g)
    \/ \E k \in Positions : TickNode(k)

SpecPing == InitPing /\ [][NextPing]_vars

(***************************************************************************)
(* A unit driven on its own through the provided methods of the trait.     *)
(***************************************************************************)
PathKinds ==
    [kind : {"Filter"}, delay : 0..MaxDelay]
        \cup {[kind |-> "Unknown", delay |-> 0], [kind |-> "Value", delay |-> 0]}

Called(op, arg, ret, before, out) ==
    [op |-> op, arg |-> arg, ret |-> ret, before |-> before, out |-> out]

InitUnit ==
    /\ AdapterIdle
    /\ PingIdle
    /\ \E nin \in 0..1, nout \in 0..MaxOutputs :
           \E paths \in [1..nout -> PathKinds] :
               node = RoutedUnitNew(MaxId, nin, nout, paths)
    /\ seen = NoCall
    /\ life = NoLife

NodeFrame == [k \in 1..SelfInputs(node) |-> InputSample(1, k, 1)]

NodeCall(r, op, arg, out) ==
    /\ node' = r.self
    /\ seen' = Called(op, arg, r.ret, node, out)
    /\ UNCHANGED <<kind, unit, channels, buffer, index, source, input, output,
                   ref, last, emitted, ctor, pingVars, life>>

NodeTick ==
    /\ node # NoNode
    /\ LET r == SelfTick(node, NodeFrame)
       IN  NodeCall([self |-> r.self, ret |-> None], "tick", NodeFrame, r.out)

NodeRoute ==
    /\ node # NoNode
    /\ \E frame \in SignalFrames(SelfInputs(node)), frequency \in Frequencies :
           LET r == SelfRoute(node, frame, frequency)
           IN  NodeCall([self |-> r.self, ret |-> None], "route",
                        <<frame, frequency>>, r.out)

NodeLatency ==
    /\ node # NoNode
    /\ NodeCall(Latency(node), "latency", <<>>, <<>>)

NodeResponse ==
    /\ node # NoNode
    /\ \E outputIndex \in 0..MaxOutputs, frequency \in Frequencies :
           NodeCall(Response(node, outputIndex, frequency), "response",
                    <<outputIndex, frequency>>, <<>>)

NodeResponseDb ==
    /\ node # NoNode
    /\ \E outputIndex \in 0..MaxOutputs, frequency \in Frequencies :
           NodeCall(ResponseDb(node, outputIndex, frequency), "response_db",
                    <<outputIndex, frequency>>, <<>>)

\* The mono and stereo pulls are made on generators only.
NodeGetMono ==
    /\ SelfInputs(node) = 0
    /\ NodeCall(GetMono(node), "get_mono", <<>>, <<>>)

NodeGetStereo ==
    /\ SelfInputs(node) = 0
    /\ NodeCall(GetStereo(node), "get_stereo", <<>>, <<>>)

NextUnit ==
    \/ NodeTick
    \/ NodeRoute
    \/ NodeLatency
    \/ NodeResponse
    \/ NodeResponseDb
    \/ NodeGetMono
    \/ NodeGetStereo

SpecUnit == InitUnit /\ [][NextUnit]_vars

(***************************************************************************)
(* Properties of the block adapters.                                       *)
(***************************************************************************)
Emitting == last.op \in {"tick", "process"}

\* C1: whatever mix of tick and process(size) calls a BlockRateAdapter48 gets
\* (size 0, 1, a size that does not divide MAX_BUFFER_SIZE, MAX_BUFFER_SIZE
\* itself and sizes above it), each call writes size frames per channel and
\* they are the frames a copy of the wrapped unit, run frame by frame from
\* construction or the last reset, produces next.
C1_ChunkSizeInvariance ==
    (kind = "BlockRate" /\ Emitting) =>
        /\ Len(last.out) = ctor.nout
        /\ \A c \in 1..Len(last.out) : Len(last.out[c]) = last.size
        /\ last.out = last.expect

\* A process call of a size that does not divide the block, served partly from
\* the block buffered before it and partly from the block it generated.
C1_Witness ==
    /\ kind = "BlockRate"
    /\ last.op = "process"
    /\ last.size = SmallSize
    /\ last.cursor > MAX_BUFFER_SIZE - SmallSize
    /\ last.cursor < MAX_BUFFER_SIZE
    /\ last.calls = <<MAX_BUFFER_SIZE>>
    /\ emitted > MAX_BUFFER_SIZE

\* C2: BigBlockAdapter48.process(size, ..), for sizes below, equal to and above
\* MAX_BUFFER_SIZE, writes size frames per channel, the frames the wrapped
\* unit produces for the input frames 0 .. size - 1 in order, and leaves the
\* wrapped unit in the state that many ticks leave it in.
C2_BigBlockTransparent ==
    (kind = "BigBlock" /\ last.op = "process") =>
        /\ Len(last.out) = ctor.nout
        /\ \A c \in 1..Len(last.out) : Len(last.out[c]) = last.size
        /\ last.out = last.expect
        /\ source = ref

\* A request above two blocks, made when the wrapped unit has already run.
C2_Witness ==
    /\ kind = "BigBlock"
    /\ last.op = "process"
    /\ last.size = BigSize
    /\ Len(last.out[1]) = BigSize
    /\ source.phase # (BigSize % PhaseMod)

\* C3: every call an adapter makes to the wrapped unit's process has a size of
\* at most MAX_BUFFER_SIZE.  BigBlockAdapter48.process(size) with size above
\* MAX_BUFFER_SIZE makes the calls min(size - i, MAX_BUFFER_SIZE), which sum
\* to size; with a size up to MAX_BUFFER_SIZE it makes one call of that size;
\* BlockRateAdapter48 only makes calls of exactly MAX_BUFFER_SIZE.
C3_BoundedDelegation ==
    Emitting =>
        /\ \A j \in 1..Len(last.calls) : last.calls[j] <= MAX_BUFFER_SIZE
        /\ kind = "BlockRate" =>
               \A j \in 1..Len(last.calls) : last.calls[j] = MAX_BUFFER_SIZE
        /\ (kind = "BigBlock" /\ last.op = "process"
                /\ last.size > MAX_BUFFER_SIZE) =>
               /\ \A j \in 1..Len(last.calls) :
                      last.calls[j] = Min(last.size - (j - 1) * MAX_BUFFER_SIZE,
                                          MAX_BUFFER_SIZE)
               /\ SumSeq(last.calls) = last.size
        /\ (kind = "BigBlock" /\ last.op = "process"
                /\ last.size <= MAX_BUFFER_SIZE) =>
               last.calls = <<last.size>>

\* A request cut into two whole chunks and a shorter last one.
C3_Witness ==
    /\ kind = "BigBlock"
    /\ last.op = "process"
    /\ Len(last.calls) = 3
    /\ last.calls[3] < MAX_BUFFER_SIZE

\* C4: process with size 0 is a no-op in every reachable state.  On a
\* BlockRateAdapter48 it leaves the cursor, the buffered block and the wrapped
\* unit as they are, writes nothing and calls nothing, even when the cursor is
\* exhausted; on a BigBlockAdapter48 it leaves the scratch buffers and the
\* wrapped unit as they are and only forwards one call of size 0.
C4_ProcessZeroStep ==
    (last'.op = "process" /\ last'.size = 0) =>
        /\ UNCHANGED <<unit, channels, buffer, index, source, input, output>>
        /\ \A c \in 1..Len(last'.out) : last'.out[c] = <<>>
        /\ kind = "BlockRate" => last'.calls = <<>>
        /\ kind = "BigBlock" => last'.calls = <<0>>

C4_ProcessZeroNoOp == [][C4_ProcessZeroStep]_vars

\* process(0) on a block rate adapter whose block has been read to its end.
C4_Witness ==
    /\ kind = "BlockRate"
    /\ last.op = "process"
    /\ last.size = 0
    /\ last.cursor = MAX_BUFFER_SIZE
    /\ index = MAX_BUFFER_SIZE
    /\ buffer # <<>>
    /\ emitted = MAX_BUFFER_SIZE

\* C5: BlockRateAdapter48.reset, in any reachable state, resets the wrapped
\* unit and sets the cursor to MAX_BUFFER_SIZE; the frames of the first
\* emitting call after it are the first frames of the reset wrapped unit; and
\* the unread frames of the buffered block are always frames the wrapped unit
\* generated since the last reset: it has run emitted + unread frames since.
C5_ResetStep ==
    /\ (kind = "BlockRate" /\ last'.op = "reset") =>
           /\ index' = MAX_BUFFER_SIZE
           /\ unit' = UnitReset(unit)
    /\ (kind = "BlockRate" /\ emitted = 0 /\ last'.op \in {"tick", "process"}
            /\ last'.size > 0) =>
           /\ \A c \in 1..Len(last'.out) :
                  last'.out[c][1] = UnitTick(UnitReset(unit), <<>>).out[c]
           /\ last'.out = UnitProcess(UnitReset(unit), last'.size, <<>>).out
    /\ kind = "BlockRate" =>
           unit'.phase = (emitted' + MAX_BUFFER_SIZE - index') % PhaseMod

C5_ResetRefills == [][C5_ResetStep]_vars

\* A reset made in the middle of a block, with unread frames in the buffer.
C5_Witness ==
    /\ kind = "BlockRate"
    /\ last.op = "reset"
    /\ last.cursor > 0
    /\ last.cursor < MAX_BUFFER_SIZE
    /\ index = MAX_BUFFER_SIZE
    /\ buffer # <<>>

\* C6: inputs() and outputs() never change after construction.  A
\* BlockRateAdapter48 has 0 inputs and the output count of the wrapped unit
\* captured by new; a BigBlockAdapter48 has the counts of its wrapped unit.
C6_CountsImmutable ==
    /\ kind = "BlockRate" =>
           /\ BlockRateInputs(BRA) = 0
           /\ BlockRateOutputs(BRA) = ctor.nout
           /\ BlockRateInputs(BRA) = ctor.inputs
           /\ BlockRateOutputs(BRA) = ctor.outputs
    /\ kind = "BigBlock" =>
           /\ BigBlockInputs(BBA) = ctor.nin
           /\ BigBlockOutputs(BBA) = ctor.nout
           /\ BigBlockInputs(BBA) = ctor.inputs
           /\ BigBlockOutputs(BBA) = ctor.outputs

\* A block rate adapter that has emitted frames and been given another sample
\* rate and a seed, and is then routed.
C6_Witness ==
    /\ kind = "BlockRate"
    /\ last.op = "route"
    /\ emitted > 0
    /\ index < MAX_BUFFER_SIZE
    /\ unit.sr # DEFAULT_SR
    /\ unit.hash # 0

\* C8: ping with probe == true leaves the adapter and its wrapped unit (seed,
\* audio state, cursor, buffer, scratch) as they are, and returns the hash
\* that ping with probe == false returns for the same incoming hash.
C8_ProbeStep ==
    (last'.op = "ping" /\ last'.probe) =>
        /\ UNCHANGED <<unit, channels, buffer, index, source, input, output>>
        /\ kind = "BlockRate" =>
               last'.ret = BlockRatePing(BRA, FALSE, last'.hash).ret
        /\ kind = "BigBlock" =>
               last'.ret = BigBlockPing(BBA, FALSE, last'.hash).ret

C8_ProbeLeavesState == [][C8_ProbeStep]_vars

\* A probe of a block rate adapter in the middle of a block whose wrapped
\* unit holds a seed other than the state of the probing hash.
C8_Witness ==
    /\ kind = "BlockRate"
    /\ last.op = "ping"
    /\ last.probe
    /\ index > 0
    /\ index < MAX_BUFFER_SIZE
    /\ unit.hash # 0
    /\ unit.hash # AttoHashState(last.hash)

(***************************************************************************)
(* Properties of ping.                                                     *)
(***************************************************************************)
\* The hash threaded from hash h through the nodes at positions i .. j - 1 of
\* graph g.
RECURSIVE Threaded(_, _, _, _)
Threaded(h, g, i, j) ==
    IF i >= j THEN h
    ELSE Threaded(AttoHashHash(h, UnitGetId(nodes[g][i])), g, i + 1, j)

\* C7: the default ping with probe == false installs, by set_hash, the state
\* of the incoming hash, the value before the node's id is combined in, and
\* returns the incoming hash combined with get_id().
C7_PingInstallsIncoming ==
    (lastPing.graph # 0 /\ ~lastPing.probe) =>
        LET u == nodes[lastPing.graph][lastPing.at]
        IN  /\ u.hash = AttoHashState(lastPing.hash)
            /\ UnitSetHash(u, lastPing.before.hash) =
                   [lastPing.before EXCEPT !.phase = u.phase]
            /\ lastPing.ret = AttoHashHash(lastPing.hash, UnitGetId(u))
            /\ cur[lastPing.graph] = lastPing.ret

\* A committing ping of a node that is not the first of its graph, where the
\* hash before and the hash after the combination have different states.
C7_Witness ==
    /\ lastPing.graph # 0
    /\ ~lastPing.probe
    /\ lastPing.at > 1
    /\ AttoHashState(lastPing.ret) # AttoHashState(lastPing.hash)
    /\ nodes[lastPing.graph][lastPing.at].hash = AttoHashState(lastPing.hash)

\* C9: two graphs of the same shape pinged with probe == false from the same
\* initial hash get the same seed in every corresponding node and hand on the
\* same hash at every position, the final one included, whatever audio state
\* their nodes hold.
C9_PingDeterministic ==
    (start[1].hash = start[2].hash /\ ~start[1].probe /\ ~start[2].probe) =>
        /\ \A k \in committed[1] \cap committed[2] :
               nodes[1][k].hash = nodes[2][k].hash
        /\ pos[1] = pos[2] => cur[1] = cur[2]

\* Both graphs pinged through from the same hash, with a node of the second
\* in another audio state than its counterpart, and seeds that are not all 0.
C9_Witness ==
    /\ start[1].hash = start[2].hash
    /\ ~start[1].probe
    /\ ~start[2].probe
    /\ pos[1] = NumNodes + 1
    /\ pos[2] = NumNodes + 1
    /\ committed[1] = Positions
    /\ committed[2] = Positions
    /\ \E k \in Positions : nodes[1][k].phase # nodes[2][k].phase
    /\ \E k \in Positions : nodes[2][k].hash # 0

\* C10 as stated: in a pass with probe == false, the nodes at two different
\* positions hold different seeds.
C10_SeedsDistinct ==
    \A g \in Graphs : \A i \in committed[g], j \in committed[g] :
        i < j => nodes[g][i].hash # nodes[g][j].hash

\* C10, amended: in a pass with probe == false the seed of the node at
\* position j is the state of the hash obtained by threading the hash that
\* seeded position i through the ids of the nodes i .. j - 1, whether or not
\* the two nodes have the same id; the two seeds differ exactly when that
\* threading changes the state.
C10_SeedsFollowHistory ==
    \A g \in Graphs : \A i \in committed[g], j \in committed[g] :
        i < j =>
            LET h == Threaded(AttoHashNew(nodes[g][i].hash), g, i, j)
            IN  /\ nodes[g][j].hash = AttoHashState(h)
                /\ (nodes[g][i].hash # nodes[g][j].hash) <=>
                       (AttoHashState(h) # nodes[g][i].hash)

\* Two nodes with the same id at positions that are not adjacent, seeded
\* differently.
C10_Witness ==
    \E g \in Graphs : \E i \in committed[g], j \in committed[g] :
        /\ i + 1 < j
        /\ UnitGetId(nodes[g][i]) = UnitGetId(nodes[g][j])
        /\ nodes[g][i].hash # nodes[g][j].hash

(***************************************************************************)
(* A filter node, or an adapter, driven through the trait: constructed,    *)
(* then ticked, reset, given a sample rate and analysed in any order.      *)
(***************************************************************************)
Cutoffs == {2000 * k : k \in 1..MaxCutoff}

Bandwidths == {500, 1000}

Delays == {Scale \div 2, Scale + Scale \div 2}

Samples == {0, Scale}

\* The constructor calls of the eight filter nodes.
Constructions ==
    {[class |-> "Biquad", ctor |-> k, n |-> 1, args |-> <<>>] :
         k \in {"default", "new"}}
    \cup {[class |-> "Biquad", ctor |-> "with_coefs", n |-> 1, args |-> <<c>>] :
              c \in Cutoffs}
    \cup {[class |-> "ButterLowpass", ctor |-> "new", n |-> n, args |-> <<c>>] :
              n \in {1, 2}, c \in Cutoffs}
    \cup {[class |-> "Resonator", ctor |-> "new", n |-> n, args |-> <<c, b>>] :
              n \in {1, 3}, c \in Cutoffs, b \in Bandwidths \cup {0}}
    \cup {[class |-> k, ctor |-> "default", n |-> n, args |-> <<>>] :
              k \in {"Lowpole", "Allpole", "Highpole"}, n \in {1, 2}}
    \cup {[class |-> k, ctor |-> "new", n |-> n, args |-> <<c>>] :
              k \in {"Lowpole", "Highpole"}, n \in {1, 2}, c \in Cutoffs}
    \cup {[class |-> "Allpole", ctor |-> "new", n |-> n, args |-> <<d>>] :
              n \in {1, 2}, d \in Delays \cup {0, 0 - Scale}}
    \cup {[class |-> k, ctor |-> "default", n |-> 1, args |-> <<>>] :
              k \in {"DCBlock", "Pinkpass"}}
    \cup {[class |-> "DCBlock", ctor |-> "new", n |-> 1, args |-> <<c>>] :
              c \in Cutoffs}
    \cup {[class |-> "Pinkpass", ctor |-> "new", n |-> 1, args |-> <<>>]}

\* What the constructor call returns: the node, or Panic.
Construct(c) ==
    CASE c.class = "Biquad" ->
             IF c.ctor = "default" THEN BiquadDefault
             ELSE IF c.ctor = "new" THEN BiquadNew
             ELSE BiquadWithCoefs(butter_lowpass(DEFAULT_SR, c.args[1]))
      [] c.class = "ButterLowpass" -> ButterLowpassNew(c.n, c.args[1])
      [] c.class = "Resonator" -> ResonatorNew(c.n, c.args[1], c.args[2])
      [] c.class = "Lowpole" ->
             IF c.ctor = "default" THEN LowpoleDefault(c.n)
             ELSE LowpoleNew(c.n, c.args[1])
      [] c.class = "DCBlock" ->
             IF c.ctor = "default" THEN DCBlockDefault
             ELSE DCBlockNew(c.args[1])
      [] c.class = "Pinkpass" ->
             IF c.ctor = "default" THEN PinkpassDefault ELSE PinkpassNew
      [] c.class = "Allpole" ->
             IF c.ctor = "default" THEN AllpoleDefault(c.n)
             ELSE AllpoleNew(c.n, c.args[1])
      [] c.class = "Highpole" ->
             IF c.ctor = "default" THEN HighpoleDefault(c.n)
             ELSE HighpoleNew(c.n, c.args[1])

\* The adapters: as constructed, and a big block adapter after allocate.
Adapters ==
    {BlockRateNew(UnitNew(MaxId, 0, nout)) : nout \in 1..2}
    \cup {BigBlockNew(UnitNew(MaxId, 1, 1)),
          BigBlockAllocate(BigBlockNew(UnitNew(MaxId, 1, 1)))}

InitFilter ==
    /\ AdapterIdle
    /\ PingIdle
    /\ \/ \E c \in Constructions :
              LET r == Construct(c)
              IN  /\ node = IF r = Panic THEN NoNode ELSE r
                  /\ seen = Called("new", c, IF r = Panic THEN Panic ELSE None,
                                   NoNode, <<>>)
       \/ \E a \in Adapters :
              /\ node = a
              /\ seen = NoCall
    /\ life = NoLife

\* The node computes with finite numbers: its sample rate is not 0.
Finite(self) == IsFilter(self) => self.sample_rate # 0

\* The input frames of a tick: a sample, and the node's modulation inputs.
TickFrames(self) ==
    IF ~IsFilter(self)
    THEN {[k \in 1..SelfInputs(self) |-> InputSample(1, k, 1)]}
    ELSE IF FilterInputs(self) = 1 THEN {<<x>> : x \in Samples}
    ELSE IF self.class = "Resonator"
    THEN {<<x, c, b>> : x \in Samples, c \in Cutoffs, b \in Bandwidths}
    ELSE IF self.class = "Allpole"
    THEN {<<x, d>> : x \in Samples, d \in Delays}
    ELSE {<<x, c>> : x \in Samples, c \in Cutoffs}

FilterCall(r, op, arg, out, after) ==
    /\ node' = r.self
    /\ seen' = Called(op, arg, r.ret, node, out)
    /\ life' = after
    /\ UNCHANGED <<kind, unit, channels, buffer, index, source, input, output,
                   ref, last, emitted, ctor, pingVars>>

CallTick ==
    /\ node # NoNode
    /\ life.ticks < MaxFilterT
    /\ IF Finite(node) THEN TRUE ELSE SelfInputs(node) = 1
    /\ \E frame \in TickFrames(node) :
           LET r == SelfTick(node, frame)
           IN  FilterCall([self |-> r.self, ret |-> None], "tick", frame,
                          r.out, [life EXCEPT !.ticks = life.ticks + 1])

\* tick on slices of any length up to MaxSlice, in either build.
SlicesCall(r, arg) ==
    FilterCall([self |-> r.self, ret |-> r.ret], "tick_slices", arg, r.out,
               [life EXCEPT !.ticks = life.ticks + 1])

CallTickSlices ==
    /\ node # NoNode
    /\ life.ticks < MaxFilterT
    /\ IF Finite(node) THEN TRUE ELSE SelfInputs(node) = 1
    /\ \E inputLen \in 0..MaxSlice, outputLen \in 0..MaxSlice,
          debug \in BOOLEAN :
       \E frame \in IF inputLen = SelfInputs(node) THEN TickFrames(node)
                    ELSE {Zeros(inputLen)} :
           SlicesCall(SelfTickSlices(node, frame, inputLen, outputLen, debug),
                      [frame |-> frame, inputLen |-> inputLen,
                       outputLen |-> outputLen, debug |-> debug])

CallReset ==
    /\ node # NoNode
    /\ FilterCall([self |-> SelfReset(node), ret |-> None], "reset", <<>>,
                  <<>>, life)

CallSetSampleRate ==
    /\ node # NoNode
    /\ \E sample_rate \in SampleRates :
           FilterCall([self |-> SelfSetSampleRate(node, sample_rate),
                       ret |-> None],
                      "set_sample_rate", <<sample_rate>>, <<>>,
                      [life EXCEPT !.rated = TRUE])

CallRoute ==
    /\ node # NoNode
    /\ Finite(node)
    /\ \E frame \in SignalFrames(SelfInputs(node)), frequency \in Frequencies :
           LET r == SelfRoute(node, frame, frequency)
           IN  FilterCall([self |-> r.self, ret |-> None], "route",
                          <<frame, frequency>>, r.out, life)

CallLatency ==
    /\ node # NoNode
    /\ Finite(node)
    /\ FilterCall(Latency(node), "latency", <<>>, <<>>, life)

CallResponse ==
    /\ node # NoNode
    /\ Finite(node)
    /\ \E frequency \in Frequencies :
           FilterCall(Response(node, 0, frequency), "response",
                      <<0, frequency>>, <<>>, life)

CallResponseDb ==
    /\ node # NoNode
    /\ Finite(node)
    /\ \E frequency \in Frequencies :
           FilterCall(ResponseDb(node, 0, frequency), "response_db",
                      <<0, frequency>>, <<>>, life)

NextFilter ==
    \/ CallTick
    \/ CallReset
    \/ CallSetSampleRate
    \/ CallRoute
    \/ CallLatency
    \/ CallResponse
    \/ CallResponseDb

SpecFilter == InitFilter /\ [][NextFilter]_vars

\* The caller ticks with slices of any length, resets and changes the rate.
NextSlices ==
    \/ CallTickSlices
    \/ CallReset
    \/ CallSetSampleRate

SpecSlices == InitFilter /\ [][NextSlices]_vars

(***************************************************************************)
(* An allpass filter on its own, asked for its response over the band from *)
(* 0 Hz to the Nyquist frequency of the default rate.                      *)
(***************************************************************************)
AllpoleDelays ==
    {Scale \div 4, Scale \div 2, Scale, Scale + Scale \div 2, 2 * Scale,
     4 * Scale}

BandStep == DEFAULT_SR \div (2 * MaxBand)

AllpoleFrequencies == {k * BandStep : k \in 0..MaxBand}

InitAllpole ==
    /\ AdapterIdle
    /\ PingIdle
    /\ \E n \in {1, 2}, delay \in AllpoleDelays :
           /\ node = AllpoleNew(n, delay)
           /\ seen = Called("new", [class |-> "Allpole", ctor |-> "new", n |-> n,
                                    args |-> <<delay>>], None, NoNode, <<>>)
    /\ life = NoLife

CallRouteBand ==
    /\ node # NoNode
    /\ Finite(node)
    /\ \E frame \in SignalFrames(SelfInputs(node)),
          frequency \in AllpoleFrequencies :
           LET r == SelfRoute(node, frame, frequency)
           IN  FilterCall([self |-> r.self, ret |-> None], "route",
                          <<frame, frequency>>, r.out, life)

NextAllpole ==
    \/ CallRouteBand
    \/ CallTick
    \/ CallReset
    \/ CallSetSampleRate

SpecAllpole == InitAllpole /\ [][NextAllpole]_vars

(***************************************************************************)
(* A biquad on its own.  life.xs and life.ys record the last two inputs    *)
(* and outputs of the ticks made since the last reset, newest first, with  *)
(* zeros for the samples before it.                                        *)
(***************************************************************************)
BiquadSamples == {0, Scale, 0 - Scale \div 2}

\* A lowpass and a resonator design, at 2 kHz.
BiquadDesigns ==
    {butter_lowpass(DEFAULT_SR, 2000), resonator(DEFAULT_SR, 2000, 500)}

NoHistory == [ticks |-> 0, rated |-> FALSE, xs |-> <<0, 0>>, ys |-> <<0, 0>>]

InitBiquad ==
    /\ AdapterIdle
    /\ PingIdle
    /\ \E coefs \in BiquadDesigns :
           /\ node = BiquadWithCoefs(coefs)
           /\ seen = Called("new", [class |-> "Biquad", ctor |-> "with_coefs",
                                    n |-> 1, args |-> <<coefs>>],
                            None, NoNode, <<>>)
    /\ life = NoHistory

BiquadCallTick ==
    /\ node # NoNode
    /\ life.ticks < MaxBiquadT
    /\ \E x0 \in BiquadSamples :
           LET r == SelfTick(node, <<x0>>)
           IN  FilterCall([self |-> r.self, ret |-> None], "tick", <<x0>>, r.out,
                          [life EXCEPT !.ticks = life.ticks + 1,
                                       !.xs = <<x0, life.xs[1]>>,
                                       !.ys = <<r.out[1], life.ys[1]>>])

BiquadCallReset ==
    /\ node # NoNode
    /\ FilterCall([self |-> SelfReset(node), ret |-> None], "reset", <<>>, <<>>,
                  [life EXCEPT !.xs = <<0, 0>>, !.ys = <<0, 0>>])

BiquadCallSetCoefs ==
    /\ node # NoNode
    /\ \E coefs \in BiquadDesigns :
           FilterCall([self |-> BiquadSetCoefs(node, coefs), ret |-> None],
                      "set_coefs", <<coefs>>, <<>>, life)

NextBiquad ==
    \/ BiquadCallTick
    \/ BiquadCallReset
    \/ BiquadCallSetCoefs
    \/ CallSetSampleRate

SpecBiquad == InitBiquad /\ [][NextBiquad]_vars

(***************************************************************************)
(* An adapter whose process is followed pass by pass.  node holds the      *)
(* adapter, and during a process call the locals of the call beside its    *)
(* fields: i, the frames written so far (out) and the calls made to the    *)
(* wrapped unit.  life.pc is "idle" between calls, "loop" inside the while *)
(* loop and "delegated" when the whole request was handed on.  life also   *)
(* records, for the last pass, the frames it wrote (n) and the buffer      *)
(* positions it read (lo..hi), and since the last reset the frames the     *)
(* wrapped unit was asked for (gen) and the frames emitted (emit), and the  *)
(* adapter as it was when the last process call was made (entry).          *)
(***************************************************************************)
LoopIdle ==
    [pc |-> "idle", size |-> 0, n |-> 0, passes |-> 0, made |-> 0,
     gen |-> 0, emit |-> 0, lo |-> 0, hi |-> 0 - 1, entry |-> NoNode]

InitLoop ==
    /\ AdapterIdle
    /\ PingIdle
    /\ node \in {BlockRateNew(UnitNew(MaxId, 0, 2)),
                 BigBlockNew(UnitNew(MaxId, 2, 1))}
    /\ seen = Called("new", 0, None, NoNode, <<>>)
    /\ life = LoopIdle

LoopStep(after, call, now) ==
    /\ node' = after
    /\ seen' = call
    /\ life' = now
    /\ UNCHANGED <<kind, unit, channels, buffer, index, source, input, output,
                   ref, last, emitted, ctor, pingVars>>

\* The fields of the adapter, without the locals of a call.
Fields(s) ==
    IF IsBlockRate(s)
    THEN [unit |-> s.unit, channels |-> s.channels, buffer |-> s.buffer,
          index |-> s.index]
    ELSE [source |-> s.source, input |-> s.input, output |-> s.output]

LoopInput(size) == InputBuffers(1, SelfInputs(node), size)

\* process is called: a block rate adapter and a big block adapter asked for
\* more than a block enter their loop, otherwise the request is handed on.
LoopEnter(sizes) ==
    /\ life.pc = "idle"
    /\ life.made < MaxLoopCalls
    /\ \E size \in sizes :
           LET looping == IF IsBlockRate(node) THEN TRUE
                          ELSE size > MAX_BUFFER_SIZE
               s == IF IsBlockRate(node) THEN BlockRateStart(node)
                    ELSE IF looping THEN BigBlockStart(node)
                    ELSE BigBlockProcess(node, size, LoopInput(size))
           IN  LoopStep(s, Called("enter", size, None, node, <<>>),
                        [life EXCEPT !.pc = IF looping THEN "loop" ELSE "delegated",
                                     !.size = size, !.n = 0, !.passes = 0,
                                     !.made = life.made + 1,
                                     !.entry = node])

LoopPass ==
    /\ life.pc = "loop"
    /\ node.i < life.size
    /\ node' = IF IsBlockRate(node)
               THEN BlockRatePass(node, life.size, LoopInput(life.size))
               ELSE BigBlockPass(node, life.size, LoopInput(life.size))
    /\ seen' = Called("pass", life.size, None, node, <<>>)
    /\ LET n == node'.i - node.i
           asked == SubSeq(node'.calls, Len(node.calls) + 1, Len(node'.calls))
       IN  life' = IF IsBlockRate(node)
                   THEN [life EXCEPT !.n = n, !.passes = life.passes + 1,
                                     !.gen = life.gen + SumSeq(asked),
                                     !.emit = life.emit + n,
                                     !.lo = node'.index - n,
                                     !.hi = node'.index - 1]
                   ELSE [life EXCEPT !.n = n, !.passes = life.passes + 1]
    /\ UNCHANGED <<kind, unit, channels, buffer, index, source, input, output,
                   ref, last, emitted, ctor, pingVars>>

LoopReturn ==
    /\ life.pc # "idle"
    /\ IF life.pc = "loop" THEN ~(node.i < life.size) ELSE TRUE
    /\ LoopStep(Fields(node), Called("process", life.size, None, node, node.out),
                [life EXCEPT !.pc = "idle"])

LoopTick ==
    /\ life.pc = "idle"
    /\ life.made < MaxLoopCalls
    /\ LET frame == [k \in 1..SelfInputs(node) |-> InputSample(1, k, 1)]
           r == SelfTick(node, frame)
       IN  LoopStep(r.self, Called("tick", 1, None, node,
                           [c \in 1..Len(r.out) |-> <<r.out[c]>>] \o <<>>),
                    IF IsBlockRate(node)
                    THEN [life EXCEPT !.made = life.made + 1,
                                      !.gen = life.gen
                                                  + SumSeq(BlockRateTick(node).calls),
                                      !.emit = life.emit + 1,
                                      !.lo = r.self.index - 1,
                                      !.hi = r.self.index - 1]
                    ELSE [life EXCEPT !.made = life.made + 1])

LoopReset ==
    /\ life.pc = "idle"
    /\ LoopStep(SelfReset(node), Called("reset", 0, None, node, <<>>),
                [life EXCEPT !.gen = 0, !.emit = 0])

LoopSetSampleRate ==
    /\ life.pc = "idle"
    /\ \E sample_rate \in SampleRates :
           LoopStep(SelfSetSampleRate(node, sample_rate),
                    Called("set_sample_rate", sample_rate, None, node, <<>>),
                    life)

LoopPing ==
    /\ life.pc = "idle"
    /\ \E probe \in BOOLEAN :
           LET r == SelfPing(node, probe, AttoHashNew(1))
           IN  LoopStep(r.self, Called("ping", IF probe THEN 1 ELSE 0, None, node, <<>>), life)

LoopRoute ==
    /\ life.pc = "idle"
    /\ \E frame \in SignalFrames(SelfInputs(node)), frequency \in Frequencies :
           LET r == SelfRoute(node, frame, frequency)
           IN  LoopStep(r.self, Called("route", frequency, None, node, <<>>),
                        life)

LoopAllocate ==
    /\ life.pc = "idle"
    /\ LoopStep(SelfAllocate(node), Called("allocate", 0, None, node, <<>>),
                life)

\* The adapter is cloned and the caller goes on with the clone.
LoopClone ==
    /\ life.pc = "idle"
    /\ LoopStep(SelfClone(node), Called("clone", 0, None, node, <<>>), life)

NextLoop ==
    \/ LoopEnter(FewSizes)
    \/ LoopPass
    \/ LoopReturn
    \/ LoopTick
    \/ LoopReset
    \/ LoopSetSampleRate
    \/ LoopPing
    \/ LoopRoute
    \/ LoopAllocate
    \/ LoopClone

SpecLoop == InitLoop /\ [][NextLoop]_vars

\* The caller only calls process.
NextPasses ==
    \/ LoopEnter(Sizes)
    \/ LoopPass
    \/ LoopReturn

\* A call that has started runs on: the loop takes its next pass and the
\* call returns, whatever else the caller would do afterwards.
SpecLoopFair ==
    /\ InitLoop
    /\ [][NextPasses]_vars
    /\ WF_vars(LoopPass)
    /\ WF_vars(LoopReturn)

(***************************************************************************)
(* An adapter and its clone.  The adapter's fields are the variables unit, *)
(* channels, buffer and index (or source, input and output); node holds    *)
(* the clone once it is made.  seen.on names the adapter that was called,  *)
(* and life.ticks counts the calls made since the clone.                   *)
(***************************************************************************)
Original == IF kind = "BlockRate" THEN BRA ELSE BBA

\* The frames the adapter has emitted before it is cloned.
ClonePrefixes == {0, SmallSize, MAX_BUFFER_SIZE + 1}

CloneSizes == {1, MAX_BUFFER_SIZE + 1}

InitClone ==
    /\ \E k \in ClonePrefixes,
          a0 \in {BlockRateNew(UnitNew(MaxId, 0, 2)),
                  BigBlockNew(UnitNew(MaxId, 2, 1))} :
           LET a == SelfProcess(a0, k, InputBuffers(1, SelfInputs(a0), k)).self
               b == IsBlockRate(a)
           IN  /\ kind = IF b THEN "BlockRate" ELSE "BigBlock"
               /\ unit = IF b THEN a.unit ELSE NoUnit
               /\ channels = IF b THEN a.channels ELSE 0
               /\ buffer = IF b THEN a.buffer ELSE <<>>
               /\ index = IF b THEN a.index ELSE MAX_BUFFER_SIZE
               /\ source = IF b THEN NoUnit ELSE a.source
               /\ input = IF b THEN <<>> ELSE a.input
               /\ output = IF b THEN <<>> ELSE a.output
               /\ ctor = [inputs |-> SelfInputs(a), outputs |-> SelfOutputs(a),
                          nin |-> SelfInputs(a0), nout |-> SelfOutputs(a0)]
    /\ ref = NoUnit
    /\ last = Observed("new", 0, <<>>, <<>>, <<>>, FALSE, NoHash, NoHash, <<>>)
    /\ emitted = 0
    /\ PingIdle
    /\ NodeIdle

AdapterClone ==
    /\ node = NoNode
    /\ node' = SelfClone(Original)
    /\ seen' = [op |-> "clone", on |-> "original", arg |-> <<>>, ret |-> None,
                out |-> <<>>]
    /\ UNCHANGED <<kind, unit, channels, buffer, index, source, input, output,
                   ref, last, emitted, ctor, pingVars, life>>

Targets == {"original", "clone"}

\* The call with result r was made on the adapter named on.
CloneCall(on, op, arg, r) ==
    /\ IF on = "clone"
       THEN /\ node' = r.self
            /\ UNCHANGED <<unit, channels, buffer, index, source, input, output>>
       ELSE /\ node' = node
            /\ IF kind = "BlockRate"
               THEN /\ unit' = r.self.unit
                    /\ channels' = r.self.channels
                    /\ buffer' = r.self.buffer
                    /\ index' = r.self.index
                    /\ UNCHANGED <<source, input, output>>
               ELSE /\ source' = r.self.source
                    /\ input' = r.self.input
                    /\ output' = r.self.output
                    /\ UNCHANGED <<unit, channels, buffer, index>>
    /\ seen' = [op |-> op, on |-> on, arg |-> arg, ret |-> r.ret, out |-> r.out]
    /\ life' = [life EXCEPT !.ticks = life.ticks + 1]
    /\ UNCHANGED <<kind, ref, last, emitted, ctor, pingVars>>

CalledOn(on) == IF on = "clone" THEN node ELSE Original

CloneTick ==
    /\ node # NoNode
    /\ life.ticks < MaxCloneCalls
    /\ \E on \in Targets :
           LET a == CalledOn(on)
               frame == [k \in 1..SelfInputs(a) |-> InputSample(1, k, 1)]
               r == SelfTick(a, frame)
           IN  CloneCall(on, "tick", frame,
                         [self |-> r.self, ret |-> None, out |-> r.out])

CloneProcess ==
    /\ node # NoNode
    /\ life.ticks < MaxCloneCalls
    /\ \E on \in Targets, size \in CloneSizes :
           LET a == CalledOn(on)
               r == SelfProcess(a, size, InputBuffers(1, SelfInputs(a), size))
           IN  CloneCall(on, "process", size,
                         [self |-> r.self, ret |-> None, out |-> r.out])

CloneReset ==
    /\ node # NoNode
    /\ life.ticks < MaxCloneCalls
    /\ \E on \in Targets :
           CloneCall(on, "reset", <<>>,
                     [self |-> SelfReset(CalledOn(on)), ret |-> None, out |-> <<>>])

CloneSetSampleRate ==
    /\ node # NoNode
    /\ life.ticks < MaxCloneCalls
    /\ \E on \in Targets, sample_rate \in SampleRates :
           CloneCall(on, "set_sample_rate", sample_rate,
                     [self |-> SelfSetSampleRate(CalledOn(on), sample_rate),
                      ret |-> None, out |-> <<>>])

ClonePing ==
    /\ node # NoNode
    /\ life.ticks < MaxCloneCalls
    /\ \E on \in Targets, probe \in BOOLEAN, seed \in PingSeeds :
           LET r == SelfPing(CalledOn(on), probe, AttoHashNew(seed))
           IN  CloneCall(on, "ping", <<probe, seed>>,
                         [self |-> r.self, ret |-> r.ret, out |-> <<>>])

CloneAllocate ==
    /\ node # NoNode
    /\ life.ticks < MaxCloneCalls
    /\ \E on \in Targets :
           CloneCall(on, "allocate", <<>>,
                     [self |-> SelfAllocate(CalledOn(on)), ret |-> None,
                      out |-> <<>>])

NextClone ==
    \/ AdapterClone
    \/ CloneTick
    \/ CloneProcess
    \/ CloneReset
    \/ CloneSetSampleRate
    \/ ClonePing
    \/ CloneAllocate

SpecClone == InitClone /\ [][NextClone]_vars

(***************************************************************************)
(* Properties of the provided methods of the trait.                        *)
(***************************************************************************)
\* What route gives for the unit, seeded with sig on every input.
RoutedFrom(u, sig, frequency) ==
    SelfRoute(u, [i \in 1..SelfInputs(u) |-> sig], frequency).out

\* C11: latency() is None for a unit without outputs; otherwise, with every
\* input seeded with Latency(0), it is Some(m), m the least latency among the
\* outputs whose routed signal is a latency, other outputs being ignored, and
\* None exactly when no output is routed to a latency.
C11_LatencyIsMinimum ==
    seen.op = "latency" =>
        LET u == seen.before
            routed == RoutedFrom(u, SignalLatency(0), 1)
            lat == {routed[c].value :
                        c \in {d \in 1..SelfOutputs(u) : routed[d].tag = "Latency"}}
        IN  /\ SelfOutputs(u) = 0 => seen.ret = None
            /\ lat = {} <=> seen.ret = None
            /\ lat # {} =>
                   /\ seen.ret.tag = "Some"
                   /\ seen.ret.value \in lat
                   /\ \A x \in lat : seen.ret.value <= x

\* A unit with three outputs, one of them no latency, whose first output has
\* a larger latency than the one returned.
C11_Witness ==
    /\ seen.op = "latency"
    /\ SelfOutputs(seen.before) = 3
    /\ seen.ret.tag = "Some"
    /\ LET routed == RoutedFrom(seen.before, SignalLatency(0), 1)
       IN  /\ \E c \in 1..3 : routed[c].tag # "Latency"
           /\ routed[1].tag = "Latency"
           /\ seen.ret.value < routed[1].value

\* C12: response(output, frequency) with output < outputs(), every input
\* seeded with Response(1+0i, 0), is Some(r) exactly when the routed signal
\* at output is a response, r being its gain, and None when it is a latency
\* or unknown; with output >= outputs() the call panics.
C12_ResponseOfOutput ==
    seen.op = "response" =>
        LET u == seen.before
            k == seen.arg[1]
            routed == RoutedFrom(u, SignalResponse(<<1, 0>>, 0), seen.arg[2])
        IN  IF k < SelfOutputs(u)
            THEN /\ seen.ret.tag \in {"Some", "None"}
                 /\ seen.ret.tag = "Some" <=> routed[k + 1].tag = "Response"
                 /\ seen.ret.tag = "Some" => seen.ret.value = routed[k + 1].value
            ELSE /\ seen.ret = Panic
                 /\ node = u

\* The response of the last of three outputs, a gain other than 1.
C12_Witness ==
    /\ seen.op = "response"
    /\ seen.arg[1] = 2
    /\ seen.ret.tag = "Some"
    /\ seen.ret.value # <<1, 0>>

\* C13: get_mono and get_stereo on a unit with one or two outputs make one
\* tick of the unit; get_mono returns c for the output c and (a + b) / 2
\* for the outputs (a, b); get_stereo returns (c, c) and (a, b).
C13_MonoStereoPull ==
    (seen.op \in {"get_mono", "get_stereo"}
         /\ SelfOutputs(seen.before) \in {1, 2}) =>
        LET t == SelfTick(seen.before, <<>>)
            one == SelfOutputs(seen.before) = 1
        IN  /\ node = t.self
            /\ node # seen.before
            /\ (seen.op = "get_mono" /\ one) => seen.ret = <<t.out[1], 1>>
            /\ (seen.op = "get_mono" /\ ~one) =>
                   2 * seen.ret[1] = (t.out[1] + t.out[2]) * seen.ret[2]
            /\ (seen.op = "get_stereo" /\ one) =>
                   seen.ret = <<t.out[1], t.out[1]>>
            /\ (seen.op = "get_stereo" /\ ~one) =>
                   seen.ret = <<t.out[1], t.out[2]>>

\* The mono pull of a unit with two outputs whose sum is odd.
C13_Witness ==
    /\ seen.op = "get_mono"
    /\ SelfOutputs(seen.before) = 2
    /\ seen.before.phase > 0
    /\ seen.ret[2] = 2

\* C14: get_mono and get_stereo on a unit whose output count is neither 1
\* nor 2 panic, and the unit has not been ticked: its state is as before.
C14_PullPanics ==
    (seen.op \in {"get_mono", "get_stereo"}
         /\ SelfOutputs(seen.before) \notin {1, 2}) =>
        /\ seen.ret = Panic
        /\ node = seen.before

\* The stereo pull of a unit with three outputs that has already run.
C14_Witness ==
    /\ seen.op = "get_stereo"
    /\ SelfOutputs(seen.before) = 3
    /\ seen.before.phase > 0
    /\ seen.ret = Panic

(***************************************************************************)
(* Properties of the filter nodes.                                         *)
(***************************************************************************)
Analysis == {"route", "response", "response_db", "latency"}

\* C15: route, response, response_db and latency leave a filter node
\* (history, coefficients, parameters, sample rate) and an adapter (cursor,
\* buffered block, scratch buffers, wrapped unit) as they were, so a tick
\* after the call gives what it would have given without the call.
C15_AnalysisLeavesState ==
    seen.op \in Analysis =>
        /\ node = seen.before
        /\ seen.ret # Panic
        /\ \A frame \in TickFrames(seen.before) :
               SelfTick(node, frame) = SelfTick(seen.before, frame)

\* A route of a one-pole lowpass whose history is not zero.
C15_Witness ==
    /\ seen.op = "route"
    /\ IsFilter(node)
    /\ node.class = "Lowpole"
    /\ seen.before.value # 0
    /\ seen.out[1].tag = "Response"

\* The history fields of a filter node; a ButterLowpass and a Resonator hold
\* theirs in the biquad.
HistoryFields(class) ==
    CASE class = "Biquad" -> {"x1", "x2", "y1", "y2"}
      [] class = "Lowpole" -> {"value"}
      [] class \in {"DCBlock", "Allpole", "Highpole"} -> {"x1", "y1"}
      [] class = "Pinkpass" -> {"b0", "b1", "b2", "b3", "b4", "b5", "b6"}
      [] class \in {"ButterLowpass", "Resonator"} -> {}

Zeroed(r, fields) == [f \in DOMAIN r |-> IF f \in fields THEN 0 ELSE r[f]]

\* C16: reset of a filter node sets every history field to zero and leaves
\* every other field (coefficients, cutoff, center, bandwidth, eta, sample
\* rate) as it was.
C16_ResetZeroesHistoryOnly ==
    (seen.op = "reset" /\ IsFilter(seen.before)) =>
        LET b == seen.before
        IN  \A f \in DOMAIN b :
                IF f = "biquad"
                THEN node.biquad = Zeroed(b.biquad, HistoryFields("Biquad"))
                ELSE node[f] = Zeroed(b, HistoryFields(b.class))[f]

\* A reset of a pink filter that has filtered a sample.
C16_Witness ==
    /\ seen.op = "reset"
    /\ IsFilter(seen.before)
    /\ seen.before.class = "Pinkpass"
    /\ seen.before.b6 # 0
    /\ seen.before.b0 # 0

Designed == {"ButterLowpass", "Resonator", "Lowpole", "Highpole", "DCBlock"}

ParamsOf(self) ==
    IF self.class = "Resonator" THEN <<self.center, self.bandwidth>>
    ELSE <<self.cutoff>>

CoefsOf(self) ==
    IF self.class \in {"ButterLowpass", "Resonator"} THEN self.biquad.coefs
    ELSE self.coeff

HistoryOf(self) ==
    IF self.class \in {"ButterLowpass", "Resonator"}
    THEN <<self.biquad.x1, self.biquad.x2, self.biquad.y1, self.biquad.y2>>
    ELSE IF self.class = "Lowpole" THEN <<self.value>>
    ELSE <<self.x1, self.y1>>

\* The design equation of a class, for a sample rate and parameters.
Design(class, sample_rate, params) ==
    CASE class = "ButterLowpass" -> butter_lowpass(sample_rate, params[1])
      [] class = "Resonator" -> resonator(sample_rate, params[1], params[2])
      [] class \in {"Lowpole", "Highpole"} ->
             exp(((0 - TAU) * params[1]) \div sample_rate)
      [] class = "DCBlock" -> Scale - (TAU * params[1]) \div sample_rate

\* C17: set_sample_rate(hz) on a ButterLowpass, Resonator, Lowpole, Highpole
\* or DCBlock keeps the stored cutoff (center and bandwidth), sets the
\* coefficients to the design equation of the stored parameters at hz, and
\* keeps the history.
C17_RateRederives ==
    (seen.op = "set_sample_rate" /\ IsFilter(seen.before)
         /\ seen.before.class \in Designed) =>
        LET b == seen.before
            hz == seen.arg[1]
        IN  /\ ParamsOf(node) = ParamsOf(b)
            /\ CoefsOf(node) = Design(b.class, hz, ParamsOf(b))
            /\ HistoryOf(node) = HistoryOf(b)
            /\ node.sample_rate = hz

\* A Butterworth lowpass with history that is given another sample rate.
C17_Witness ==
    /\ seen.op = "set_sample_rate"
    /\ IsFilter(seen.before)
    /\ seen.before.class = "ButterLowpass"
    /\ seen.before.sample_rate \notin {0, seen.arg[1]}
    /\ seen.before.biquad.y1 # 0
    /\ CoefsOf(node) # CoefsOf(seen.before)

\* The sample a node gives for input x with the given coefficients.
Filtered(b, coefs, x) ==
    CASE b.class \in {"ButterLowpass", "Resonator"} ->
             BiquadTick(BiquadSetCoefs(b.biquad, coefs), <<x>>).out
      [] b.class = "Lowpole" ->
             <<FMul(Scale - coefs, x) + FMul(coefs, b.value)>>
      [] b.class = "Highpole" -> <<FMul(coefs, b.y1 + x - b.x1)>>

\* C18: a tick of a ButterLowpass, Lowpole, Highpole or Resonator that has
\* modulation inputs: when they differ from the stored parameters the
\* coefficients become the design equation of the inputs at the node's
\* sample rate, and the sample is filtered with them; when they are the
\* same the coefficients stay as they are; the stored parameters are the
\* inputs afterwards.
C18_ModulationRederives ==
    (seen.op = "tick" /\ IsFilter(seen.before)
         /\ seen.before.class \in Designed \ {"DCBlock"}
         /\ FilterInputs(seen.before) > 1) =>
        LET b == seen.before
            x == seen.arg[1]
            params == Tail(seen.arg)
            coefs == IF params # ParamsOf(b)
                     THEN Design(b.class, b.sample_rate, params)
                     ELSE CoefsOf(b)
        IN  /\ CoefsOf(node) = coefs
            /\ ParamsOf(node) = params
            /\ seen.out = Filtered(b, coefs, x)
            /\ node.sample_rate = b.sample_rate

\* A Butterworth lowpass with history whose cutoff input changes while it
\* filters a sample that is not zero.
C18_Witness ==
    /\ seen.op = "tick"
    /\ IsFilter(seen.before)
    /\ seen.before.class = "ButterLowpass"
    /\ seen.before.n = 2
    /\ seen.arg[2] # seen.before.cutoff
    /\ seen.arg[1] # 0
    /\ seen.before.biquad.y1 # 0
    /\ seen.out # Filtered(seen.before, CoefsOf(seen.before), seen.arg[1])

\* C19: a filter node on which set_sample_rate was never called has the
\* sample rate DEFAULT_SR, however it was constructed.
C19_DefaultRate ==
    (node # NoNode /\ IsFilter(node) /\ ~life.rated) =>
        node.sample_rate = DEFAULT_SR

\* C20: Allpole::new with a delay that is not positive and Resonator::new
\* with a bandwidth that is not positive panic: no node is returned.
C20_RejectsNonPositive ==
    (seen.op = "new" /\ "arg" \in DOMAIN seen /\ seen.arg.ctor = "new"
         /\ \/ seen.arg.class = "Allpole" /\ ~(seen.arg.args[1] > 0)
            \/ seen.arg.class = "Resonator" /\ ~(seen.arg.args[2] > 0)) =>
        /\ seen.ret = Panic
        /\ node = NoNode

(***************************************************************************)
(* C21.  A tick call whose input slice length differs from inputs() or     *)
(* whose output slice length differs from outputs() panics at the call,    *)
(* for a node behind An, a BigBlockAdapter48 and a BlockRateAdapter48, and *)
(* leaves the unit's state as it was.                                      *)
(***************************************************************************)
Mismatched ==
    /\ seen.op = "tick_slices"
    /\ \/ seen.arg.inputLen # SelfInputs(seen.before)
       \/ seen.arg.outputLen # SelfOutputs(seen.before)

C21_MismatchPanics ==
    Mismatched => (seen.ret = Panic /\ node = seen.before)

(***************************************************************************)
(* C22.  allocate is idempotent on both adapters: after it the big block   *)
(* adapter's scratch buffers have length MAX_BUFFER_SIZE and the block     *)
(* rate adapter's buffer has one block per channel, and a second allocate  *)
(* changes nothing.  On a block rate adapter allocate changes neither the  *)
(* cursor nor any sample emitted afterwards.                               *)
(***************************************************************************)
C22_AllocateIdempotent ==
    /\ kind = "BlockRate" =>
           LET a == BlockRateAllocate(BRA)
           IN  /\ BlockRateAllocate(a) = a
               /\ Len(a.buffer) = channels
               /\ \A c \in 1..channels : Len(BufferAt(a.buffer, c)) = MAX_BUFFER_SIZE
               /\ a.index = index
               /\ \A size \in {1, MAX_BUFFER_SIZE + 1} :
                      BlockRateProcess(a, size, <<>>).out
                          = BlockRateProcess(BRA, size, <<>>).out
    /\ kind = "BigBlock" =>
           LET a == BigBlockAllocate(BBA)
           IN  /\ BigBlockAllocate(a) = a
               /\ \A k \in 1..Len(a.input) : Len(a.input[k]) = MAX_BUFFER_SIZE
               /\ \A c \in 1..Len(a.output) : Len(a.output[c]) = MAX_BUFFER_SIZE
    /\ (last.op = "allocate" /\ kind = "BlockRate") => BlockRateAllocate(BRA) = BRA
    /\ (last.op = "allocate" /\ kind = "BigBlock") => BigBlockAllocate(BBA) = BBA

\* allocate was called on a block rate adapter in the middle of a block.
C22_Witness ==
    /\ kind = "BlockRate"
    /\ last.op = "allocate"
    /\ index > 0
    /\ index < MAX_BUFFER_SIZE
    /\ Len(buffer) = channels

(***************************************************************************)
(* C23.  Cloning an adapter yields a unit with equal state: for a block    *)
(* rate adapter the same wrapped unit state, buffered block and cursor, so *)
(* that original and clone emit the same samples from then on.  After the  *)
(* clone a tick, process, reset, set_sample_rate, ping or allocate on one  *)
(* of the two leaves the state of the other, and so its future output,     *)
(* unchanged.                                                              *)
(***************************************************************************)
C23_CloneStep ==
    /\ seen'.op = "clone" =>
           /\ node' = Original
           /\ Original' = Original
           /\ \A size \in CloneSizes :
                  SelfProcess(node', size,
                              InputBuffers(1, SelfInputs(node'), size)).out
                      = SelfProcess(Original, size,
                                    InputBuffers(1, SelfInputs(Original), size)).out
    /\ (seen'.op # "clone" /\ seen'.on = "original") => node' = node
    /\ (seen'.op # "clone" /\ seen'.on = "clone") => Original' = Original

Abs(x) == IF x < 0 THEN 0 - x ELSE x

\* The squared magnitude may be off by a twentieth.
Tolerance == Scale \div 20

AllpoleRouted ==
    /\ seen.op = "route"
    /\ seen.before.class = "Allpole"
    /\ seen.arg[1][1].tag = "Response"

ScratchLens ==
    {Len(input[k]) : k \in 1..Len(input)} \cup {Len(output[c]) : c \in 1..Len(output)}

\* The step is a process of more than a block, or an allocate.
Grows ==
    \/ last'.op = "allocate"
    \/ last'.op = "process" /\ last'.size > MAX_BUFFER_SIZE

C25_ScratchStep ==
    kind = "BigBlock" =>
        /\ ScratchLens' = IF Grows \/ ScratchLens = {MAX_BUFFER_SIZE}
                          THEN {MAX_BUFFER_SIZE} ELSE {0}
        /\ (last'.op = "tick" \/ (last'.op = "process" /\ ~Grows)) =>
               (input' = input /\ output' = output)

C25_ScratchLengths ==
    /\ kind = "BigBlock" => ScratchLens = {0}
    /\ [][C25_ScratchStep]_vars

\* A process of at most a block was made after the scratch buffers had grown.
C25_Witness ==
    /\ kind = "BigBlock"
    /\ last.op = "process"
    /\ last.size > 0
    /\ last.size <= MAX_BUFFER_SIZE
    /\ ScratchLens = {MAX_BUFFER_SIZE}

(***************************************************************************)
(* C26.  A tick of Biquad computes                                         *)
(*     y0 = b0 * x0 + b1 * x1 + b2 * x2 - a1 * y1 - a2 * y2                *)
(* from the state before the tick, then sets x2 to the old x1, x1 to x0,   *)
(* y2 to the old y1 and y1 to y0, and leaves the coefficients unchanged.   *)
(* After any sequence of ticks since the last reset (x1, x2) are the last  *)
(* two inputs and (y1, y2) the last two outputs, zeros standing for the    *)
(* samples before the reset.                                               *)
(***************************************************************************)
C26_BiquadHistory ==
    /\ (node # NoNode /\ node.class = "Biquad") =>
           /\ <<node.x1, node.x2>> = life.xs
           /\ <<node.y1, node.y2>> = life.ys
    /\ (seen.op = "tick" /\ seen.before.class = "Biquad") =>
           LET b == seen.before
               x0 == seen.arg[1]
               y0 == FMul(b.coefs.b0, x0) + FMul(b.coefs.b1, b.x1)
                         + FMul(b.coefs.b2, b.x2)
                         - FMul(b.coefs.a1, b.y1) - FMul(b.coefs.a2, b.y2)
           IN  /\ seen.out = <<y0>>
               /\ node = [b EXCEPT !.x2 = b.x1, !.x1 = x0, !.y2 = b.y1, !.y1 = y0]
               /\ node.coefs = b.coefs

\* Three ticks since the last reset, the first of which has left the history.
C26_Witness ==
    /\ node # NoNode
    /\ node.class = "Biquad"
    /\ seen.op = "tick"
    /\ life.ticks = MaxBiquadT
    /\ node.x1 # node.x2
    /\ node.y1 # node.y2
    /\ node.y2 # 0
    /\ seen.before.y2 # 0

(***************************************************************************)
(* C27.  For every size and every reachable state, process of both         *)
(* adapters terminates after writing exactly size frames to every output   *)
(* channel.  Every pass of its loop advances by at least one frame (n is   *)
(* never 0 while frames remain) and never past size.                       *)
(***************************************************************************)
C27_Progress ==
    /\ life.pc = "loop" =>
           /\ node.i <= life.size
           /\ life.passes > 0 => life.n >= 1
           /\ life.passes <= node.i
           /\ \A c \in 1..Len(node.out) : Len(node.out[c]) = node.i
    /\ seen.op = "process" =>
           LET r == SelfProcess(life.entry, seen.arg,
                                InputBuffers(1, SelfInputs(life.entry), seen.arg))
           IN  /\ Len(seen.out) = SelfOutputs(node)
               /\ \A c \in 1..Len(seen.out) : Len(seen.out[c]) = seen.arg
               /\ seen.out = r.out
               /\ node = r.self

C27_ProcessTerminates ==
    /\ []C27_Progress
    /\ (life.pc # "idle") ~> (life.pc = "idle")

\* A block rate adapter in the middle of a block was asked for more than two
\* blocks, and the call has returned after three passes or more.
C27_Witness ==
    /\ seen.op = "process"
    /\ IsBlockRate(node)
    /\ seen.arg = BigSize
    /\ life.passes >= 3
    /\ life.entry.index > 0
    /\ life.entry.index < MAX_BUFFER_SIZE

(***************************************************************************)
(* C28.  A BlockRateAdapter48 asks the wrapped unit only for whole blocks  *)
(* of MAX_BUFFER_SIZE frames, and only when its cursor is MAX_BUFFER_SIZE  *)
(* and at least one more frame is requested.  In every reachable state the *)
(* frames generated since the last reset minus the frames emitted since    *)
(* then equal MAX_BUFFER_SIZE - cursor, so that after an emit the wrapped  *)
(* unit is never more than MAX_BUFFER_SIZE - 1 frames ahead.               *)
(***************************************************************************)
Ahead == life.gen - life.emit

C28_Ahead ==
    IsBlockRate(node) =>
        /\ Ahead = MAX_BUFFER_SIZE - node.index
        /\ (seen.op = "tick" \/ (seen.op = "pass" /\ life.n > 0)) =>
               (Ahead >= 0 /\ Ahead <= MAX_BUFFER_SIZE - 1)

\* The wrapped unit is asked for frames in this step.
C28_AskStep ==
    (IsBlockRate(node) /\ life'.gen > life.gen) =>
        /\ node.index = MAX_BUFFER_SIZE
        /\ life'.gen = life.gen + MAX_BUFFER_SIZE
        /\ life'.emit > life.emit
        /\ seen'.op \in {"tick", "pass"}

C28_WholeBlocksOnDemand == []C28_Ahead /\ [][C28_AskStep]_vars

\* The second pass of a process call has refilled the buffer and emitted a
\* part of the new block.
C28_Witness ==
    /\ IsBlockRate(node)
    /\ life.pc = "loop"
    /\ seen.op = "pass"
    /\ life.passes >= 2
    /\ seen.before.index = MAX_BUFFER_SIZE
    /\ node.index > 0
    /\ node.index < MAX_BUFFER_SIZE
    /\ life.gen >= 2 * MAX_BUFFER_SIZE

(***************************************************************************)
(* C29.  In every state of a BlockRateAdapter48 reachable by new, tick,    *)
(* process, reset, set_sample_rate, ping, route, allocate and clone the    *)
(* cursor satisfies 0 <= index <= MAX_BUFFER_SIZE, and every read of the   *)
(* buffered block is at a position below MAX_BUFFER_SIZE of a block that   *)
(* is there: no read is out of bounds and MAX_BUFFER_SIZE - index never    *)
(* underflows.                                                             *)
(***************************************************************************)
C29_CursorInBounds ==
    IsBlockRate(node) =>
        /\ node.index >= 0
        /\ node.index <= MAX_BUFFER_SIZE
        /\ MAX_BUFFER_SIZE - node.index >= 0
        /\ node.index < MAX_BUFFER_SIZE =>
               /\ Len(node.buffer) >= node.channels
               /\ \A c \in 1..node.channels :
                      Len(BufferAt(node.buffer, c)) = MAX_BUFFER_SIZE
        /\ (seen.op = "tick" \/ seen.op = "pass") =>
               /\ life.lo >= 0
               /\ life.hi <= MAX_BUFFER_SIZE - 1
               /\ life.hi = node.index - 1
               /\ Len(node.buffer) >= node.channels
        /\ life.pc = "loop" => life.size - node.i >= 0

\* A pass has read the buffered block from the middle up to its last frame,
\* after a rate change, an allocate or a clone.
C29_Witness ==
    /\ IsBlockRate(node)
    /\ seen.op = "pass"
    /\ life.lo > 0
    /\ life.hi = MAX_BUFFER_SIZE - 1
    /\ node.index = MAX_BUFFER_SIZE
    /\ node.unit.sr # DEFAULT_SR

(***************************************************************************)
(* C30.  set_sample_rate of a BlockRateAdapter48 forwards the rate to the  *)
(* wrapped unit and changes neither the cursor nor the buffered block.     *)
(* With index < MAX_BUFFER_SIZE the next MAX_BUFFER_SIZE - index frames    *)
(* emitted are those generated before the call; the first frame generated  *)
(* under the new rate is emitted only after them.                          *)
(***************************************************************************)
C30_RateKeepsBufferedFrames ==
    (seen.op = "set_sample_rate" /\ IsBlockRate(node)) =>
        LET b == seen.before
            k == MAX_BUFFER_SIZE - b.index
            r == BlockRateProcess(node, k + 1, <<>>)
        IN  /\ node.unit = UnitSetSampleRate(b.unit, seen.arg)
            /\ node.unit.sr = seen.arg
            /\ node.index = b.index
            /\ node.buffer = b.buffer
            /\ node.channels = b.channels
            /\ BlockRateProcess(node, k, <<>>).calls = <<>>
            /\ r.calls = <<MAX_BUFFER_SIZE>>
            /\ \A c \in 1..node.channels :
                   /\ k > 0 => SubSeq(r.out[c], 1, k)
                                   = SubSeq(BufferAt(b.buffer, c), b.index + 1,
                                            MAX_BUFFER_SIZE)
                   /\ r.out[c][k + 1]
                          = UnitProcess(node.unit, MAX_BUFFER_SIZE, <<>>).out[c][1]

\* The rate was changed in the middle of a block generated under another rate.
C30_Witness ==
    /\ seen.op = "set_sample_rate"
    /\ IsBlockRate(node)
    /\ node.index > 0
    /\ node.index < MAX_BUFFER_SIZE
    /\ seen.before.unit.sr # seen.arg
    /\ BufferAt(node.buffer, 1)[node.index + 1]
           # UnitProcess(node.unit, MAX_BUFFER_SIZE, <<>>).out[1][1]

=============================================================================
